---- MODULE Spec2Model ----
(***************************************************************************)
(* Model of the burnchain indexer of blockstack-core                       *)
(* (src/src/burnchains/burnchain.rs): the per-block ledger transaction     *)
(* append_block, the reorg step sync_reorg and the three-stage pipeline of *)
(* Burnchain::sync.                                                        *)
(*                                                                         *)
(* The peer graph walker of src/src/net/neighbors.rs is modelled next to   *)
(* it: NeighborWalk and the walk_* methods of PeerNetwork, driven by       *)
(* walk_peer_graph.                                                        *)
(*                                                                         *)
(* Three specifications share the definitions:                             *)
(*   Spec        one process calling sync() again and again against a      *)
(*               remote chain that grows and reorgs between the calls;     *)
(*   LedgerSpec  append_block and burnchain_history_reorg driven directly, *)
(*               block after block, with the operation-bearing blocks;     *)
(*   WalkSpec    walk_peer_graph called tick after tick against a network   *)
(*               whose replies, connections and peer DB answers are free.   *)
(*                                                                         *)
(* BurnDB, the operations' check() methods, BlockSnapshot::make_snapshot,  *)
(* BurnSamplePoint::make_distribution and the BurnchainIndexer are not     *)
(* part of the source tree; their definitions follow spec.md and are       *)
(* marked as such.                                                         *)
(***************************************************************************)
EXTENDS Integers, Sequences, FiniteSets, TLC

\* ------------------------------------------------------------------------
\* Bounds
\* ------------------------------------------------------------------------
\* highest height the remote burnchain reaches in Spec
MaxHeight == 3
\* number of headers fed to the pipeline in PipeSpec
MaxPipeline == 6
\* number of remote reorgs in Spec
MaxFork == 1
\* number of append_block / reorg calls in LedgerSpec
MaxOps == 4
\* latest reading of the clock get_epoch_time_secs() in WalkSpec
MaxTime == 2
\* highest value of PeerNetwork.walk_count in WalkSpec
MaxWalkCount == 8
\* the calls of walk_peer_graph that succeed after a walk is picked up late
MaxLateTicks == 3
MaxLiveSteps == 2

\* height of the first block; heights are counted from it
first_block_height == 0

None == "None"
\* the absent value of an optional record
NoRec == [none |-> TRUE]

VARIABLES
    burndb,          \* the burn DB: committed rows of the four tables
    last_append,     \* outcome of the most recent append_block call
    reorg_event,     \* the most recent committed reorg: new_height, db_height, toggle
    nops,            \* LedgerSpec: calls made so far
    remote,          \* the remote chain: remote[h] = fork of its block at height h
    nfork,           \* forks the remote chain has had
    headers,         \* the headers file: headers[h] = fork of the header at h
    pc,              \* where the thread calling sync() is
    ret,             \* what the last sync() returned
    local,           \* sync()'s locals: db_height, sync_height, end_block, input_headers, fed
    thr,             \* the worker threads: [download, parse, db] -> position
    item,            \* the value each of download, parse holds between recv and send
    chan,            \* the sync_channel(1) queues: [downloader, parser, db]
    applied,         \* blocks append_block committed in this cycle, in order
    stage_error,     \* TRUE once a stage of this cycle has failed
    walk,            \* PeerNetwork.walk: {} for None, {w} for Some(w)
    walk_count,      \* PeerNetwork.walk_count
    walk_deadline,   \* PeerNetwork.walk_deadline
    now,             \* the clock get_epoch_time_secs() reads
    last_tick        \* what the most recent walk_peer_graph call did

indexer_vars == <<burndb, last_append, reorg_event, nops, remote, nfork, headers, pc,
                  ret, local, thr, item, chan, applied, stage_error>>
walker_vars == <<walk, walk_count, walk_deadline, now, last_tick>>
vars == <<burndb, last_append, reorg_event, nops, remote, nfork, headers, pc, ret,
          local, thr, item, chan, applied, stage_error,
          walk, walk_count, walk_deadline, now, last_tick>>

\* ------------------------------------------------------------------------
\* Burnchain blocks and transactions
\* ------------------------------------------------------------------------
\* a burn header hash is the pair <<height, fork>>
HeaderHash(h, f) == <<h, f>>

LEADER_KEY_REGISTER_OPCODE == "LeaderKeyRegister"
LEADER_BLOCK_COMMIT_OPCODE == "LeaderBlockCommit"
USER_BURN_SUPPORT_OPCODE == "UserBurnSupport"

Tx(opcode, data_ok, pk, bhh, kb, kv, fee) ==
    [opcode |-> opcode, data_ok |-> data_ok, public_key |-> pk, block_header_hash |-> bhh,
     key_block_backptr |-> kb, key_vtxindex |-> kv, burn_fee |-> fee]

TxKey(pk) == Tx(LEADER_KEY_REGISTER_OPCODE, TRUE, pk, 0, 0, 0, 0)
TxCommit(bhh, kb, kv, fee) == Tx(LEADER_BLOCK_COMMIT_OPCODE, TRUE, 0, bhh, kb, kv, fee)
TxUserBurn(pk, bhh160, fee) == Tx(USER_BURN_SUPPORT_OPCODE, TRUE, pk, bhh160, 0, 0, fee)
TxOther == Tx("Other", TRUE, 0, 0, 0, 0, 0)
TxBadKey == Tx(LEADER_KEY_REGISTER_OPCODE, FALSE, 1, 0, 0, 0, 0)

\* the transaction lists a parsed block may carry in LedgerSpec
BlockChoices ==
    { <<TxKey(1)>>,
      <<TxCommit(1, 1, 1, 2)>>,
      <<TxCommit(1, 1, 1, 2), TxCommit(2, 1, 1, 1)>>,
      <<TxCommit(1, 2, 1, 1), TxKey(1)>>,
      <<TxUserBurn(1, 101, 1), TxCommit(1, 1, 2, 1), TxOther>>,
      <<TxBadKey, TxKey(1)>>,
      <<TxKey(1), TxCommit(1, 1, 1, 15750)>>,
      <<TxKey(1), TxCommit(1, 1, 1, 23456), TxUserBurn(1, 102, 5000)>>,
      <<TxKey(1), TxCommit(1, 1, 1, 15750), TxUserBurn(1, 101, 10000)>>,
      <<TxKey(1), TxCommit(1, 1, 1, 15750), TxCommit(2, 2, 1, 15750)>> }

\* the transaction lists a parsed block may carry in Spec
PipelineChoices == { <<TxKey(1), TxCommit(1, 1, 1, 2)>> }

Block(h, f, pf, txs) ==
    [block_height |-> h, block_hash |-> HeaderHash(h, f),
     parent_block_hash |-> HeaderHash(h - 1, pf), txs |-> txs]

\* ------------------------------------------------------------------------
\* BurnDB
\* ------------------------------------------------------------------------
\* the all-zero transaction id, burn header hash and consensus hash
ZeroTxid == <<"txid", 0>>
ZeroBurnHash == <<"burn_header_hash", 0>>
ZeroConsensusHash == <<"consensus_hash", 0>>

\* SortitionHash::initial() and mix_burn_header
SortitionHash_initial == <<>>
mix_burn_header(sortition_hash, burn_header_hash) == Append(sortition_hash, burn_header_hash)

\* the snapshot of the first block, which connect() writes
BlockSnapshot_initial ==
    [block_height |-> first_block_height,
     burn_header_hash |-> HeaderHash(first_block_height, 0),
     parent_burn_header_hash |-> HeaderHash(first_block_height - 1, 0),
     ops_hash |-> <<>>, consensus_hash |-> ZeroConsensusHash,
     total_burn |-> 0, sortition_burn |-> 0, burn_quota |-> 0,
     sortition |-> TRUE, sortition_hash |-> SortitionHash_initial,
     winning_block_txid |-> ZeroTxid, winning_block_burn_hash |-> ZeroBurnHash,
     canonical |-> TRUE]

EmptyDB ==
    [snapshots |-> {BlockSnapshot_initial},
     leader_keys |-> {}, block_commits |-> {}, user_burns |-> {}]

SetMax(S) == CHOOSE x \in S : \A y \in S : y <= x

get_block_height(db) ==
    SetMax({s.block_height : s \in {r \in db.snapshots : r.canonical}})

\* the canonical snapshot at a height
get_block_snapshot(db, height) ==
    CHOOSE s \in db.snapshots : s.canonical /\ s.block_height = height

get_consensus_at(db, height) == get_block_snapshot(db, height).consensus_hash

get_leader_key_at(db, height, vtxindex) ==
    LET found == {k \in db.leader_keys :
                    k.canonical /\ k.block_number = height /\ k.vtxindex = vtxindex}
    IN  IF found = {} THEN NoRec ELSE CHOOSE k \in found : TRUE

is_leader_key_consumed(db, height, vtxindex) ==
    \E c \in db.block_commits :
        c.canonical /\ c.block_number - c.key_block_backptr = height
                    /\ c.key_vtxindex = vtxindex

insert_leader_key(db, op) ==
    [db EXCEPT !.leader_keys = @ \cup {[op EXCEPT !.canonical = TRUE]}]

insert_block_commit(db, op) ==
    [db EXCEPT !.block_commits = @ \cup {[op EXCEPT !.canonical = TRUE]}]

insert_user_burn(db, op) ==
    [db EXCEPT !.user_burns = @ \cup {[op EXCEPT !.canonical = TRUE]}]

insert_block_snapshot(db, sn) ==
    [db EXCEPT !.snapshots = @ \cup {sn}]

SnapshotHeight(r) == r.block_height
OpHeight(r) == r.block_number

InvalidateSnapshots(rows, height) ==
    {IF SnapshotHeight(r) > height THEN [r EXCEPT !.canonical = FALSE] ELSE r : r \in rows}

InvalidateOps(rows, height) ==
    {IF OpHeight(r) > height THEN [r EXCEPT !.canonical = FALSE] ELSE r : r \in rows}

burnchain_history_reorg(db, new_height) ==
    [snapshots |-> InvalidateSnapshots(db.snapshots, new_height),
     leader_keys |-> InvalidateOps(db.leader_keys, new_height),
     block_commits |-> InvalidateOps(db.block_commits, new_height),
     user_burns |-> InvalidateOps(db.user_burns, new_height)]

\* ------------------------------------------------------------------------
\* Classifying, checking and storing the operations of one block
\* ------------------------------------------------------------------------
\* the operation a decoder (from_tx) builds from a transaction of the block
OpFromTx(block_height, block_hash, burn_tx, vtxindex) ==
    [opcode |-> burn_tx.opcode, vtxindex |-> vtxindex, block_number |-> block_height,
     burn_header_hash |-> block_hash, public_key |-> burn_tx.public_key,
     block_header_hash |-> burn_tx.block_header_hash,
     key_block_backptr |-> burn_tx.key_block_backptr,
     key_vtxindex |-> burn_tx.key_vtxindex, burn_fee |-> burn_tx.burn_fee,
     txid |-> <<"txid", block_hash, vtxindex>>, canonical |-> TRUE]

\* a classifier that takes the operation of a transaction whose decoding failed
classify_transaction_unchecked(block_height, block_hash, burn_tx, vtxindex) ==
    IF burn_tx.opcode \in {LEADER_KEY_REGISTER_OPCODE, LEADER_BLOCK_COMMIT_OPCODE,
                           USER_BURN_SUPPORT_OPCODE}
    THEN OpFromTx(block_height, block_hash, burn_tx, vtxindex)
    ELSE NoRec

classify_transaction(block_height, block_hash, burn_tx, vtxindex) ==
    CASE burn_tx.opcode = LEADER_KEY_REGISTER_OPCODE ->
            IF burn_tx.data_ok THEN OpFromTx(block_height, block_hash, burn_tx, vtxindex)
            ELSE NoRec
      [] burn_tx.opcode = LEADER_BLOCK_COMMIT_OPCODE ->
            IF burn_tx.data_ok THEN OpFromTx(block_height, block_hash, burn_tx, vtxindex)
            ELSE NoRec
      [] burn_tx.opcode = USER_BURN_SUPPORT_OPCODE ->
            IF burn_tx.data_ok THEN OpFromTx(block_height, block_hash, burn_tx, vtxindex)
            ELSE NoRec
      [] OTHER -> NoRec

\* the check() methods of the three operations
LeaderKeyRegisterOp_check(db, op) == "LeaderKeyOk"

LeaderBlockCommitOp_check(db, op) ==
    LET key_height == op.block_number - op.key_block_backptr IN
    IF get_leader_key_at(db, key_height, op.key_vtxindex) = NoRec
    THEN "BlockCommitNoLeaderKey"
    ELSE IF is_leader_key_consumed(db, key_height, op.key_vtxindex)
    THEN "BlockCommitLeaderKeyAlreadyUsed"
    ELSE "BlockCommitOk"

UserBurnSupportOp_check(db, op) ==
    IF \E k \in db.leader_keys : k.canonical /\ k.public_key = op.public_key
    THEN "UserBurnSupportOk"
    ELSE "UserBurnSupportNoLeaderKey"

check_transaction_accept_all(db, blockstack_op) == TRUE
check_transaction(db, blockstack_op) ==
    CASE blockstack_op.opcode = LEADER_KEY_REGISTER_OPCODE ->
            LeaderKeyRegisterOp_check(db, blockstack_op) = "LeaderKeyOk"
      [] blockstack_op.opcode = LEADER_BLOCK_COMMIT_OPCODE ->
            LeaderBlockCommitOp_check(db, blockstack_op) = "BlockCommitOk"
      [] blockstack_op.opcode = USER_BURN_SUPPORT_OPCODE ->
            UserBurnSupportOp_check(db, blockstack_op) = "UserBurnSupportOk"

store_transaction(db, blockstack_op) ==
    CASE blockstack_op.opcode = LEADER_KEY_REGISTER_OPCODE ->
            insert_leader_key(db, blockstack_op)
      [] blockstack_op.opcode = LEADER_BLOCK_COMMIT_OPCODE ->
            insert_block_commit(db, blockstack_op)
      [] blockstack_op.opcode = USER_BURN_SUPPORT_OPCODE ->
            insert_user_burn(db, blockstack_op)

\* the classified operations of the block, in transaction order
RECURSIVE ClassifiedFrom(_, _)
ClassifiedFrom(block, i) ==
    IF i > Len(block.txs) THEN <<>>
    ELSE LET op == classify_transaction(block.block_height, block.block_hash,
                                        block.txs[i], i)
         IN  (IF op = NoRec THEN <<>> ELSE <<op>>) \o ClassifiedFrom(block, i + 1)

\* a check_block that stops at the first operation its check rejects
check_block_stop_at_reject(db, block, fail) ==
    LET classified == ClassifiedFrom(block, 1)
        rejected == {i \in 1..Len(classified) : ~check_transaction(db, classified[i])}
        last == IF rejected = {} THEN Len(classified)
                ELSE (CHOOSE i \in rejected : \A j \in rejected : i <= j) - 1
    IN  IF fail = "check" /\ classified # <<>>
        THEN [ok |-> FALSE, ops |-> <<>>, classified |-> classified]
        ELSE [ok |-> TRUE, ops |-> SubSeq(classified, 1, last),
              classified |-> classified]

\* check_block: the classified operations whose check returned true, or Err
\* when a check fails with an error
check_block(db, block, fail) ==
    LET classified == ClassifiedFrom(block, 1)
        Accepts(op) == check_transaction(db, op)
    IN  IF fail = "check" /\ classified # <<>>
        THEN [ok |-> FALSE, ops |-> <<>>, classified |-> classified]
        ELSE [ok |-> TRUE, ops |-> SelectSeq(classified, Accepts),
              classified |-> classified]

RECURSIVE StoreAll(_, _)
StoreAll(db, ops) ==
    IF ops = <<>> THEN db ELSE StoreAll(store_transaction(db, Head(ops)), Tail(ops))

\* a store loop in which the last store_transaction fails when failing is set
StoreLoop(db, ops, failing) ==
    IF failing /\ ops # <<>>
    THEN [ok |-> FALSE, db |-> StoreAll(db, SubSeq(ops, 1, Len(ops) - 1))]
    ELSE [ok |-> TRUE, db |-> StoreAll(db, ops)]

IsKey(op) == op.opcode = LEADER_KEY_REGISTER_OPCODE
IsCommit(op) == op.opcode = LEADER_BLOCK_COMMIT_OPCODE
IsUserBurn(op) == op.opcode = USER_BURN_SUPPORT_OPCODE
IsKeyOrCommit(op) == IsKey(op) \/ IsCommit(op)

\* get_consumed_leader_keys: the key of each commit, None where the lookup
\* finds none (the code panics there)
get_consumed_leader_keys(db, block_candidates) ==
    [i \in 1..Len(block_candidates) |->
        get_leader_key_at(db,
            block_candidates[i].block_number - block_candidates[i].key_block_backptr,
            block_candidates[i].key_vtxindex)]

Hash160(h) == h + 100

\* BurnSamplePoint::make_distribution: one sample point per commit, with the
\* user burns that match the commit and its key
RECURSIVE SumFees(_)
SumFees(ops) == IF ops = <<>> THEN 0 ELSE Head(ops).burn_fee + SumFees(Tail(ops))

\* the user burns that support a commit: same block header hash (as Hash160)
\* and the VRF key the commit consumes
MatchedUserBurns(commit, key, user_burns) ==
    LET Matches(u) == /\ u.block_header_hash = Hash160(commit.block_header_hash)
                      /\ u.public_key = key.public_key
    IN  SelectSeq(user_burns, Matches)

\* the weight of a commit: its burn fee and the fees of its matched user burns
PointBurn(commit, key, user_burns) ==
    commit.burn_fee + SumFees(MatchedUserBurns(commit, key, user_burns))

RECURSIVE RangeStart(_, _, _, _)
RangeStart(block_commits, consumed_leader_keys, user_burns, i) ==
    IF i = 1 THEN 0
    ELSE RangeStart(block_commits, consumed_leader_keys, user_burns, i - 1)
         + PointBurn(block_commits[i - 1], consumed_leader_keys[i - 1], user_burns)

make_distribution(block_commits, consumed_leader_keys, user_burns) ==
    [i \in 1..Len(block_commits) |->
        LET start == RangeStart(block_commits, consumed_leader_keys, user_burns, i)
            burns == PointBurn(block_commits[i], consumed_leader_keys[i], user_burns)
        IN  [candidate |-> block_commits[i], key |-> consumed_leader_keys[i],
             user_burns |-> MatchedUserBurns(block_commits[i], consumed_leader_keys[i],
                                             user_burns),
             burns |-> burns, range_start |-> start, range_end |-> start + burns]]

RECURSIVE DistUserBurns(_, _)
DistUserBurns(burn_dist, i) ==
    IF i > Len(burn_dist) THEN <<>>
    ELSE burn_dist[i].user_burns \o DistUserBurns(burn_dist, i + 1)

\* the user burns append_blockstack_ops stores: those of the burn distribution
UserBurnsToStore_all(burn_dist, user_burns) == user_burns
UserBurnsToStore(burn_dist, user_burns) == DistUserBurns(burn_dist, 1)

\* append_blockstack_ops, on the transaction's view db
append_blockstack_ops(db, block_ops, fail) ==
    LET block_commits == SelectSeq(block_ops, IsCommit)
        user_burns == SelectSeq(block_ops, IsUserBurn)
        stored == StoreLoop(db, SelectSeq(block_ops, IsKeyOrCommit), fail = "store")
        keys == get_consumed_leader_keys(stored.db, block_commits)
    IN  IF ~stored.ok THEN [result |-> "Err", db |-> stored.db, burn_dist |-> <<>>]
        ELSE IF fail = "consumed_keys" /\ block_commits # <<>>
        THEN [result |-> "Err", db |-> stored.db, burn_dist |-> <<>>]
        ELSE IF \E i \in 1..Len(keys) : keys[i] = NoRec
        THEN [result |-> "Panic", db |-> stored.db, burn_dist |-> <<>>]
        ELSE LET burn_dist == make_distribution(block_commits, keys, user_burns)
                 stored2 == StoreLoop(stored.db, UserBurnsToStore(burn_dist, user_burns),
                                      fail = "store_user_burn")
             IN  [result |-> IF stored2.ok THEN "Ok" ELSE "Err", db |-> stored2.db,
                  burn_dist |-> burn_dist]

\* the burn quota controller's gains
BurnQuotaConfig == [inc |-> 21000, dec_num |-> 4, dec_den |-> 5]

\* downward and upward adjustment of the burn quota
bqdec_sub(burn_quota) == burn_quota - BurnQuotaConfig.inc
bqdec(burn_quota) == (burn_quota * BurnQuotaConfig.dec_num) \div BurnQuotaConfig.dec_den

bqinc(burn_quota) == burn_quota + BurnQuotaConfig.inc

\* BurnSamplePoint::get_total_burns
RECURSIVE get_total_burns(_)
get_total_burns_commits_only(burn_dist) ==
    IF burn_dist = <<>> THEN 0
    ELSE Head(burn_dist).candidate.burn_fee + get_total_burns(Tail(burn_dist))

get_total_burns(burn_dist) ==
    IF burn_dist = <<>> THEN 0 ELSE Head(burn_dist).burns + get_total_burns(Tail(burn_dist))

burn_quota_next_block_only(last_snapshot, block_burn) ==
    LET quota == last_snapshot.burn_quota
        met == block_burn >= quota
    IN  [burn_quota_met |-> met,
         sortition_burn |-> last_snapshot.sortition_burn + block_burn,
         burn_quota |-> IF ~met THEN quota
                        ELSE IF last_snapshot.sortition THEN bqinc(quota)
                        ELSE SetMax({1, bqdec(quota)})]

burn_quota_next_no_accumulate(last_snapshot, block_burn) ==
    LET quota == last_snapshot.burn_quota
        met == block_burn >= quota
    IN  [burn_quota_met |-> met,
         sortition_burn |-> block_burn,
         burn_quota |-> IF ~met THEN quota
                        ELSE IF last_snapshot.sortition THEN bqinc(quota)
                        ELSE SetMax({1, bqdec(quota)})]

\* the burn quota after a block that burns block_burn on top of last_snapshot:
\* unchanged while the burn since the last sortition stays below the quota;
\* once it is met, raised when the block before had a sortition as well and
\* lowered when it had not
burn_quota_next(last_snapshot, block_burn) ==
    LET quota == last_snapshot.burn_quota
        sortition_burn == last_snapshot.sortition_burn + block_burn
        met == sortition_burn >= quota
    IN  [burn_quota_met |-> met,
         sortition_burn |-> sortition_burn,
         burn_quota |-> IF ~met THEN quota
                        ELSE IF last_snapshot.sortition THEN bqinc(quota)
                        ELSE SetMax({1, bqdec(quota)})]

\* the operations of the block that the transaction holds, by vtxindex
RECURSIVE SortByVtxindex(_)
SortByVtxindex(ops) ==
    IF ops = {} THEN <<>>
    ELSE LET first == CHOOSE o \in ops : \A q \in ops : o.vtxindex <= q.vtxindex
         IN  <<first>> \o SortByVtxindex(ops \ {first})

get_block_ops(db, block_hash) ==
    SortByVtxindex({o \in db.leader_keys \cup db.block_commits \cup db.user_burns :
                        o.canonical /\ o.burn_header_hash = block_hash})

\* OpsHash::from_txids
OpsHash_from_txids(ops) == [i \in 1..Len(ops) |-> ops[i].txid]

\* the earlier consensus hashes a consensus hash covers: 1, 2, 4, ... blocks back
PrevOffsets == <<1, 2, 4, 8>>
get_prev_consensus_hashes(db, block_height) ==
    LET InRange(off) == block_height - off >= first_block_height
        offs == SelectSeq(PrevOffsets, InRange)
    IN  [i \in 1..Len(offs) |-> get_consensus_at(db, block_height - offs[i])]

ConsensusHash_from_ops(ops_hash, total_burn, prev_consensus_hashes) ==
    <<"consensus_hash", ops_hash, total_burn, prev_consensus_hashes>>

\* the number a sortition hash stands for, reduced to [0, total)
RECURSIVE SortitionHashValue(_)
SortitionHashValue(sortition_hash) ==
    IF sortition_hash = <<>> THEN 7
    ELSE LET last == sortition_hash[Len(sortition_hash)]
         IN  (31 * SortitionHashValue(SubSeq(sortition_hash, 1, Len(sortition_hash) - 1))
              + 17 * last[1] + 5 * last[2] + 3) % 65536

select_winning_block_key(sortition_hash, burn_dist) == burn_dist[1].key

\* the sample point whose range holds the sortition hash's point
select_winning_block(sortition_hash, burn_dist) ==
    LET total == get_total_burns(burn_dist)
        point == SortitionHashValue(sortition_hash) % total
        i == CHOOSE j \in 1..Len(burn_dist) :
                 burn_dist[j].range_start <= point /\ point < burn_dist[j].range_end
    IN  burn_dist[i].candidate

\* BlockSnapshot::make_snapshot
make_snapshot(db, this_block_height, this_block_hash, parent_block_hash, burn_dist) ==
    LET last_snapshot == get_block_snapshot(db, this_block_height - 1)
        block_burn == get_total_burns(burn_dist)
        next == burn_quota_next(last_snapshot, block_burn)
        sortition == next.burn_quota_met /\ burn_dist # <<>>
        sortition_hash == mix_burn_header(last_snapshot.sortition_hash, this_block_hash)
        ops_hash == OpsHash_from_txids(get_block_ops(db, this_block_hash))
        total_burn == last_snapshot.total_burn + block_burn
    IN  [block_height |-> this_block_height, burn_header_hash |-> this_block_hash,
         parent_burn_header_hash |-> parent_block_hash,
         ops_hash |-> ops_hash,
         consensus_hash |-> ConsensusHash_from_ops(ops_hash, total_burn,
                               get_prev_consensus_hashes(db, this_block_height)),
         total_burn |-> total_burn,
         sortition_burn |-> IF sortition THEN 0 ELSE next.sortition_burn,
         burn_quota |-> next.burn_quota,
         sortition |-> sortition,
         sortition_hash |-> sortition_hash,
         winning_block_txid |-> IF sortition
                                THEN select_winning_block(sortition_hash, burn_dist).txid
                                ELSE ZeroTxid,
         winning_block_burn_hash |-> IF sortition THEN this_block_hash ELSE ZeroBurnHash,
         canonical |-> TRUE]

append_snapshot(db, this_block_height, this_block_hash, parent_block_hash, burn_dist, fail) ==
    LET snapshot == make_snapshot(db, this_block_height, this_block_hash,
                                  parent_block_hash, burn_dist)
        \* heights whose snapshot make_snapshot reads
        read == {this_block_height - 1} \cup
                {this_block_height - PrevOffsets[i] : i \in DOMAIN PrevOffsets}
        missing == \E h \in read :
                       /\ h >= first_block_height
                       /\ ~\E s \in db.snapshots : s.canonical /\ s.block_height = h
    IN  IF fail = "make_snapshot" \/ missing THEN [result |-> "Err", db |-> db]
        ELSE IF fail = "insert_snapshot" THEN [result |-> "Err", db |-> db]
        ELSE [result |-> "Ok", db |-> insert_block_snapshot(db, snapshot)]

append_block_ops(db, this_block_height, this_block_hash, parent_block_hash, this_block_ops, fail) ==
    LET dist == append_blockstack_ops(db, this_block_ops, fail) IN
    IF dist.result # "Ok" THEN [result |-> dist.result, db |-> dist.db]
    ELSE append_snapshot(dist.db, this_block_height, this_block_hash,
                         parent_block_hash, dist.burn_dist, fail)

\* what the DB holds when a transaction begun on db, whose writes made txdb,
\* ends: committed, or dropped without a commit (rolled back)
tx_end_autocommit(db, txdb, committed) == txdb
tx_end(db, txdb, committed) == IF committed THEN txdb ELSE db

\* the places where append_block can fail with an error
AppendFailures == {"none", "tx_begin", "check", "store", "consumed_keys",
                   "store_user_burn", "make_snapshot", "insert_snapshot", "commit"}

\* append_block: result, the DB afterwards, the operations check_block accepted
\* and the operations its transactions were classified to (None when the block
\* was not looked at)
append_block(db, block, fail) ==
    IF fail = "tx_begin"
    THEN [result |-> "Err", db |-> db, accepted |-> <<>>, classified |-> {}]
    ELSE
    LET block_ops == check_block(db, block, fail) IN
    IF ~block_ops.ok
    THEN [result |-> "Err", db |-> tx_end(db, db, FALSE), accepted |-> <<>>,
          classified |-> {block_ops.classified}]
    ELSE LET snap == append_block_ops(db, block.block_height, block.block_hash,
                                      block.parent_block_hash, block_ops.ops, fail)
             result == IF snap.result = "Ok" /\ fail = "commit" THEN "Err"
                       ELSE snap.result
         IN  [result |-> result, db |-> tx_end(db, snap.db, result = "Ok"),
              accepted |-> block_ops.ops, classified |-> {block_ops.classified}]

\* ------------------------------------------------------------------------
\* The burnchain indexer: headers file and remote chain
\* ------------------------------------------------------------------------
get_headers_height(hdrs) == Len(hdrs)

\* the highest height, not above from_height, up to which the headers file
\* agrees with the remote chain
find_chain_reorg(hdrs, rem, from_height) ==
    SetMax({h \in first_block_height..from_height :
              \A i \in 1..h : i <= Len(hdrs) /\ i <= Len(rem) /\ hdrs[i] = rem[i]})

\* fetch the remote headers above start_height into the headers file
sync_headers(hdrs, rem, start_height) ==
    SubSeq(hdrs, 1, start_height) \o SubSeq(rem, start_height + 1, Len(rem))

drop_headers(hdrs, new_height) == SubSeq(hdrs, 1, new_height)

\* the header records of the heights above start_block, up to end_block
read_headers(hdrs, start_block, end_block) ==
    [i \in 1..(end_block - start_block) |->
        [height |-> start_block + i, fork |-> hdrs[start_block + i],
         parent_fork |-> IF start_block + i = 1 THEN 0 ELSE hdrs[start_block + i - 1]]]

\* ------------------------------------------------------------------------
\* sync_reorg and the start of sync()
\* ------------------------------------------------------------------------
SyncFailures == {"none", "get_block_height", "find_chain_reorg", "reorg_tx",
                 "drop_headers", "sync_headers", "read_headers"}

\* the height sync_reorg hands to burnchain_history_reorg
reorg_target_stale(new_height, db_height) == db_height
reorg_target_above(new_height, db_height) == new_height + 1
reorg_target(new_height, db_height) == new_height

\* the height the cycle resumes from
sync_height_of(new_height, db_height) ==
    IF new_height < db_height THEN new_height ELSE db_height

\* "sanity check -- how many headers do we have?"
missing_headers_unchecked(headers_height, db_height) == FALSE
missing_headers(headers_height, db_height) == headers_height < db_height

\* err tells MissingHeaders and a failure to read the DB height from the
\* other errors
sync_reorg(db, hdrs, rem, fail) ==
    LET db_height == get_block_height(db)
        headers_height == get_headers_height(hdrs)
        new_height == find_chain_reorg(hdrs, rem, db_height)
        reorged == burnchain_history_reorg(db, reorg_target(new_height, db_height))
        Err(d, h, ev, e) == [result |-> "Err", sync_height |-> 0, db |-> d, headers |-> h,
                             reorg |-> ev, err |-> e]
        event == [new_height |-> new_height, db_height |-> db_height]
    IN  IF fail = "get_block_height" THEN Err(db, hdrs, NoRec, "DBError")
        ELSE IF missing_headers(headers_height, db_height)
        THEN Err(db, hdrs, NoRec, "MissingHeaders")
        ELSE IF fail = "find_chain_reorg" THEN Err(db, hdrs, NoRec, "Other")
        ELSE IF new_height < db_height
        THEN IF fail = "reorg_tx" THEN Err(tx_end(db, reorged, FALSE), hdrs, NoRec, "Other")
             ELSE IF fail = "drop_headers"
             THEN Err(tx_end(db, reorged, TRUE), hdrs, event, "Other")
             ELSE [result |-> "Ok", sync_height |-> sync_height_of(new_height, db_height),
                   db |-> tx_end(db, reorged, TRUE),
                   headers |-> drop_headers(hdrs, new_height), reorg |-> event,
                   err |-> None]
        ELSE [result |-> "Ok", sync_height |-> sync_height_of(new_height, db_height),
              db |-> db, headers |-> hdrs, reorg |-> NoRec, err |-> None]

Threads == {"download", "parse", "db"}
Exited == {"exit_ok", "exit_err", "exit_panic"}
NoThreads == [t \in Threads |-> "none"]
NoItems == [t \in {"download", "parse"} |-> NoRec]
EmptyChans == [c \in {"downloader", "parser", "db"} |-> <<>>]
NoLocal == [db_height |-> 0, sync_height |-> 0, end_block |-> 0, input_headers |-> <<>>,
            fed |-> 0]

\* sync() has returned (or was never called) and its workers are gone
BetweenCycles ==
    /\ pc \in {"idle", "returned_ok", "returned_err"}
    /\ \A t \in Threads : thr[t] \in Exited \cup {"none"}

\* sync(), from its entry to the spawning of the three workers
SyncBegin(fail) ==
    /\ BetweenCycles
    /\ LET db_height == get_block_height(burndb)
           r == sync_reorg(burndb, headers, remote, fail)
           header_height == get_headers_height(r.headers)
           synced == sync_headers(r.headers, remote, header_height)
           end_block == get_headers_height(synced)
           Return(kind, value, hdrs, e) ==
               /\ pc' = (IF kind = "Ok" THEN "returned_ok" ELSE "returned_err")
               /\ ret' = [kind |-> kind, value |-> value, err |-> e]
               /\ headers' = hdrs
               /\ local' = NoLocal
               /\ thr' = NoThreads
       IN  /\ burndb' = r.db
           /\ reorg_event' = IF r.reorg = NoRec THEN reorg_event
                             ELSE [new_height |-> r.reorg.new_height,
                                   db_height |-> r.reorg.db_height,
                                   seq |-> 1 - reorg_event.seq]
           /\ chan' = EmptyChans /\ item' = NoItems
           /\ applied' = <<>> /\ stage_error' = FALSE
           /\ IF r.result = "Err" THEN Return("Err", 0, r.headers, r.err)
              ELSE IF fail = "sync_headers" THEN Return("Err", 0, r.headers, "Other")
              ELSE IF db_height >= end_block THEN Return("Ok", db_height, synced, None)
              ELSE IF fail = "read_headers" THEN Return("Err", 0, synced, "Other")
              ELSE /\ pc' = "feeding"
                   /\ headers' = synced
                   /\ local' = [db_height |-> db_height, sync_height |-> r.sync_height,
                                end_block |-> end_block,
                                input_headers |-> read_headers(synced, r.sync_height, end_block),
                                fed |-> 0]
                   /\ thr' = [t \in Threads |-> "recv"]
                   /\ UNCHANGED ret
    /\ UNCHANGED walker_vars
    /\ UNCHANGED <<last_append, nops, remote, nfork>>

\* ------------------------------------------------------------------------
\* The pipeline: feeder, downloader, parser, DB applier
\* ------------------------------------------------------------------------
\* the feeder loop: one downloader_send.send per header
Feed ==
    /\ pc = "feeding"
    /\ local.fed < Len(local.input_headers)
    /\ IF thr["download"] \in Exited
       THEN /\ pc' = "returned_err"
            /\ ret' = [kind |-> "Err", value |-> 0, err |-> "Other"]
            /\ UNCHANGED <<chan, local>>
       ELSE /\ Len(chan["downloader"]) < 1
            /\ chan' = [chan EXCEPT !["downloader"] =
                            Append(@, local.input_headers[local.fed + 1])]
            /\ local' = [local EXCEPT !.fed = @ + 1]
            /\ pc' = IF local.fed + 1 = Len(local.input_headers) THEN "join_download"
                     ELSE "feeding"
            /\ UNCHANGED ret
    /\ UNCHANGED walker_vars
    /\ UNCHANGED <<burndb, last_append, reorg_event, nops, remote, nfork, headers, thr,
                   item, applied, stage_error>>

\* join().unwrap().unwrap() on a finished worker
join_unwrap(thread_state, next_pc) ==
    IF thread_state = "exit_ok" THEN next_pc ELSE "panicked"

JoinOrder == [download |-> "join_parse", parse |-> "join_db", db |-> "returned_ok"]
JoinPc == [download |-> "join_download", parse |-> "join_parse", db |-> "join_db"]

Join ==
    /\ \E t \in Threads :
          /\ pc = JoinPc[t]
          /\ thr[t] \in Exited
          /\ pc' = join_unwrap(thr[t], JoinOrder[t])
          /\ ret' = IF pc' = "returned_ok"
                    THEN [kind |-> "Ok", value |-> local.end_block, err |-> None] ELSE ret
    /\ UNCHANGED walker_vars
    /\ UNCHANGED <<burndb, last_append, reorg_event, nops, remote, nfork, headers, local,
                   thr, item, chan, applied, stage_error>>

\* the sender of the feeder's channel is dropped when sync() is left
FeederGone == pc \in {"returned_err", "returned_ok", "panicked"}

\* where a worker goes after its stage's call: on with the item, or out
stage_result(ok) == IF ok THEN "send" ELSE "exit_err"

\* a worker (download or parse) takes the next item of its input queue and
\* runs its stage on it
StageRecv(t, in, upstream_gone) ==
    /\ thr[t] = "recv"
    /\ IF chan[in] # <<>>
       THEN \E ok \in BOOLEAN :
              /\ thr' = [thr EXCEPT ![t] = stage_result(ok)]
              /\ item' = [item EXCEPT ![t] = IF ok THEN Head(chan[in]) ELSE NoRec]
              /\ chan' = [chan EXCEPT ![in] = Tail(@)]
              /\ stage_error' = (stage_error \/ ~ok)
       ELSE /\ upstream_gone
            /\ thr' = [thr EXCEPT ![t] = "exit_err"]
            /\ UNCHANGED <<item, chan, stage_error>>
    /\ UNCHANGED walker_vars
    /\ UNCHANGED <<burndb, last_append, reorg_event, nops, remote, nfork, headers, pc,
                   ret, local, applied>>

\* a worker whose send never waits for room in the queue
StageSend_nowait(t, out, downstream) ==
    /\ thr[t] = "send"
    /\ IF thr[downstream] \in Exited
       THEN /\ thr' = [thr EXCEPT ![t] = "exit_err"]
            /\ item' = [item EXCEPT ![t] = NoRec]
            /\ UNCHANGED chan
       ELSE /\ chan' = [chan EXCEPT ![out] = Append(@, item[t])]
            /\ item' = [item EXCEPT ![t] = NoRec]
            /\ thr' = [thr EXCEPT ![t] = "recv"]
    /\ UNCHANGED walker_vars
    /\ UNCHANGED <<burndb, last_append, reorg_event, nops, remote, nfork, headers, pc,
                   ret, local, applied, stage_error>>
\* a worker that keeps its item after the send and sends it again
StageSend_again(t, out, downstream) ==
    /\ thr[t] = "send"
    /\ IF thr[downstream] \in Exited
       THEN /\ thr' = [thr EXCEPT ![t] = "exit_err"]
            /\ item' = [item EXCEPT ![t] = NoRec]
            /\ UNCHANGED chan
       ELSE /\ Len(chan[out]) < 1
            /\ chan' = [chan EXCEPT ![out] = Append(@, item[t])]
            /\ UNCHANGED <<item, thr>>
    /\ UNCHANGED walker_vars
    /\ UNCHANGED <<burndb, last_append, reorg_event, nops, remote, nfork, headers, pc,
                   ret, local, applied, stage_error>>
\* a worker sends its item on; the send fails when the receiver is gone
StageSend(t, out, downstream) ==
    /\ thr[t] = "send"
    /\ IF thr[downstream] \in Exited
       THEN /\ thr' = [thr EXCEPT ![t] = "exit_err"]
            /\ item' = [item EXCEPT ![t] = NoRec]
            /\ UNCHANGED chan
       ELSE /\ Len(chan[out]) < 1
            /\ chan' = [chan EXCEPT ![out] = Append(@, item[t])]
            /\ item' = [item EXCEPT ![t] = NoRec]
            /\ thr' = [thr EXCEPT ![t] = "recv"]
    /\ UNCHANGED walker_vars
    /\ UNCHANGED <<burndb, last_append, reorg_event, nops, remote, nfork, headers, pc,
                   ret, local, applied, stage_error>>

DownloadRecv == StageRecv("download", "downloader", FeederGone)
DownloadSend == StageSend("download", "parser", "parse")
ParseRecv == StageRecv("parse", "parser", thr["download"] \in Exited)
ParseSend == StageSend("parse", "db", "db")

AppendRecord(seq, r, block) ==
    [seq |-> seq, result |-> r.result, block_height |-> block.block_height,
     block_hash |-> block.block_hash, accepted |-> r.accepted,
     txs |-> block.txs, classified |-> r.classified]

\* the DB applier takes the next parsed block and appends it
DbApply ==
    /\ thr["db"] = "recv"
    /\ IF chan["db"] # <<>>
       THEN \E txs \in PipelineChoices, fail \in AppendFailures :
              LET hdr == Head(chan["db"])
                  block == Block(hdr.height, hdr.fork, hdr.parent_fork, txs)
                  r == append_block(burndb, block, fail)
              IN  /\ burndb' = r.db
                  /\ last_append' = AppendRecord(1 - last_append.seq, r, block)
                  /\ chan' = [chan EXCEPT !["db"] = Tail(@)]
                  /\ applied' = IF r.result = "Ok" THEN Append(applied, hdr) ELSE applied
                  /\ stage_error' = (stage_error \/ r.result # "Ok")
                  /\ thr' = [thr EXCEPT !["db"] =
                                CASE r.result = "Ok" -> "recv"
                                  [] r.result = "Err" -> "exit_err"
                                  [] OTHER -> "exit_panic"]
       ELSE /\ thr["parse"] \in Exited
            /\ thr' = [thr EXCEPT !["db"] = "exit_err"]
            /\ UNCHANGED <<burndb, last_append, chan, applied, stage_error>>
    /\ UNCHANGED walker_vars
    /\ UNCHANGED <<reorg_event, nops, remote, nfork, headers, pc, ret, local, item>>

\* sync() waits in join() for the downloader, which waits in recv() on the
\* empty queue whose only sender sync() itself still holds
WaitsForever ==
    /\ pc = "join_download"
    /\ thr["download"] = "recv"
    /\ chan["downloader"] = <<>>

\* ------------------------------------------------------------------------
\* The remote chain
\* ------------------------------------------------------------------------
RemoteMine ==
    /\ BetweenCycles
    /\ Len(remote) < MaxHeight
    /\ remote' = Append(remote, nfork)
    /\ UNCHANGED walker_vars
    /\ UNCHANGED <<burndb, last_append, reorg_event, nops, nfork, headers, pc, ret, local,
                   thr, item, chan, applied, stage_error>>

\* the blocks above height h are replaced by one block of a new fork
RemoteReorg ==
    /\ BetweenCycles
    /\ nfork < MaxFork
    /\ \E h \in 0..(Len(remote) - 1) :
          remote' = Append(SubSeq(remote, 1, h), nfork + 1)
    /\ nfork' = nfork + 1
    /\ UNCHANGED walker_vars
    /\ UNCHANGED <<burndb, last_append, reorg_event, nops, headers, pc, ret, local,
                   thr, item, chan, applied, stage_error>>

\* last_tick before the first call of walk_peer_graph
NoTick ==
    [from |-> "HandshakeBegin", res |-> "None", err |-> "None", ret |-> {}, trail |-> <<>>,
     polled |-> {}, broken |-> {}, full |-> {}, overwritten |-> {}, pinged |-> {},
     steps |-> 0, walks |-> 0, looked |-> {}, handshakes |-> {}, saved |-> {},
     alt |-> {}, seq |-> 0]

IndexerInit ==
    /\ burndb = EmptyDB
    /\ last_append = [seq |-> 0, result |-> None, block_height |-> 0,
                      block_hash |-> HeaderHash(0, 0), accepted |-> <<>>,
                      txs |-> <<>>, classified |-> {}]
    /\ reorg_event = [new_height |-> 0, db_height |-> 0, seq |-> 0]
    /\ nops = 0
    /\ remote = <<>>
    /\ nfork = 0
    /\ headers = <<>>
    /\ pc = "idle"
    /\ ret = [kind |-> None, value |-> 0, err |-> None]
    /\ local = NoLocal
    /\ thr = NoThreads
    /\ item = NoItems
    /\ chan = EmptyChans
    /\ applied = <<>>
    /\ stage_error = FALSE

Init ==
    /\ IndexerInit
    /\ walk = {}
    /\ walk_count = 0
    /\ walk_deadline = 0
    /\ now = 0
    /\ last_tick = NoTick

Next ==
    \/ \E fail \in SyncFailures : SyncBegin(fail)
    \/ Feed
    \/ Join
    \/ DownloadRecv
    \/ DownloadSend
    \/ ParseRecv
    \/ ParseSend
    \/ DbApply
    \/ RemoteMine
    \/ RemoteReorg

Spec == Init /\ [][Next]_vars

\* ------------------------------------------------------------------------
\* CorruptSpec: Spec with a headers file that loses headers between cycles
\* ------------------------------------------------------------------------
\* "possibly corrupt database or headers file": outside of sync(), the
\* headers file is cut back to a height below the height of the DB; the
\* result of the last cycle has been taken
HeadersLost ==
    /\ BetweenCycles
    /\ \E h \in 0..(get_block_height(burndb) - 1) :
          /\ h < Len(headers)
          /\ headers' = SubSeq(headers, 1, h)
    /\ pc' = "idle"
    /\ ret' = [kind |-> None, value |-> 0, err |-> None]
    /\ UNCHANGED walker_vars
    /\ UNCHANGED <<burndb, last_append, reorg_event, nops, remote, nfork, local,
                   thr, item, chan, applied, stage_error>>

CorruptNext == Next \/ HeadersLost

CorruptSpec == Init /\ [][CorruptNext]_vars

\* ------------------------------------------------------------------------
\* PipeSpec: the pipeline of the first sync() of a chain of MaxPipeline blocks
\* ------------------------------------------------------------------------
\* the state in which sync() has spawned the three workers: the DB is empty,
\* the headers of the MaxPipeline remote blocks are fetched and read
PipeInit ==
    /\ burndb = EmptyDB
    /\ last_append = [seq |-> 0, result |-> None, block_height |-> 0,
                      block_hash |-> HeaderHash(0, 0), accepted |-> <<>>,
                      txs |-> <<>>, classified |-> {}]
    /\ reorg_event = [new_height |-> 0, db_height |-> 0, seq |-> 0]
    /\ nops = 0
    /\ remote = [i \in 1..MaxPipeline |-> 0]
    /\ nfork = 0
    /\ headers = sync_headers(<<>>, remote, 0)
    /\ pc = "feeding"
    /\ ret = [kind |-> None, value |-> 0, err |-> None]
    /\ local = [db_height |-> 0, sync_height |-> 0, end_block |-> MaxPipeline,
                input_headers |-> read_headers(headers, 0, MaxPipeline), fed |-> 0]
    /\ thr = [t \in Threads |-> "recv"]
    /\ item = NoItems
    /\ chan = EmptyChans
    /\ applied = <<>>
    /\ stage_error = FALSE
    /\ walk = {}
    /\ walk_count = 0
    /\ walk_deadline = 0
    /\ now = 0
    /\ last_tick = NoTick

PipeNext ==
    \/ Feed
    \/ Join
    \/ DownloadRecv
    \/ DownloadSend
    \/ ParseRecv
    \/ ParseSend
    \/ DbApply

PipeSpec == PipeInit /\ [][PipeNext]_vars

\* ------------------------------------------------------------------------
\* LedgerSpec: append_block and burnchain_history_reorg called directly
\* ------------------------------------------------------------------------
TipHash(db) ==
    LET tip == CHOOSE s \in db.snapshots :
                    s.canonical /\ s.block_height = get_block_height(db)
    IN  tip.burn_header_hash

LedgerAppend ==
    /\ nops < MaxOps
    /\ \E txs \in BlockChoices, fail \in AppendFailures :
          LET h == get_block_height(burndb) + 1
              block == [block_height |-> h, block_hash |-> HeaderHash(h, nfork),
                        parent_block_hash |-> TipHash(burndb), txs |-> txs]
              r == append_block(burndb, block, fail)
          IN  /\ burndb' = r.db
              /\ last_append' = AppendRecord(1 - last_append.seq, r, block)
    /\ nops' = nops + 1
    /\ UNCHANGED walker_vars
    /\ UNCHANGED <<reorg_event, remote, nfork, headers, pc, ret, local, thr, item, chan,
                   applied, stage_error>>

LedgerReorg ==
    /\ nops < MaxOps
    /\ \E h \in first_block_height..(get_block_height(burndb) - 1) :
          /\ burndb' = tx_end(burndb, burnchain_history_reorg(burndb, h), TRUE)
          /\ reorg_event' = [new_height |-> h, db_height |-> get_block_height(burndb),
                              seq |-> 1 - reorg_event.seq]
    /\ nfork' = nfork + 1
    /\ nops' = nops + 1
    /\ UNCHANGED walker_vars
    /\ UNCHANGED <<last_append, remote, headers, pc, ret, local, thr, item, chan,
                   applied, stage_error>>

LedgerNext == LedgerAppend \/ LedgerReorg

LedgerSpec == Init /\ [][LedgerNext]_vars

\* ------------------------------------------------------------------------
\* The peer graph walker: NeighborWalk (src/src/net/neighbors.rs)
\* ------------------------------------------------------------------------
\* The remote peers are numbered: a NeighborKey, a NeighborAddress and the
\* NetworkReplyHandle of a request are all the number of the peer they name.
\* An Option<T> is a set: {} is None, {x} is Some(x).  A HashMap is the set
\* of its keys where the values are not looked at, a set of [key, val]
\* records where they are.
Peers == {1, 2}
\* the local peer, as a Neighbors reply may list it
local_peer == 0
\* slots of the peer DB
Slots == {1, 2}

NUM_INITIAL_WALKS == 10
\* the clock of the model counts in units of the production value of
\* NEIGHBOR_MINIMUM_CONTACT_INTERVAL (600 seconds)
NEIGHBOR_MINIMUM_CONTACT_INTERVAL == 1
\* connection_opts.walk_interval
walk_interval == 1

the(opt) == CHOOSE x \in opt : TRUE

MapPut(m, k, v) == {e \in m : e.key # k} \cup {[key |-> k, val |-> v]}
MapRemove(m, k) == {e \in m : e.key # k}
MapKeys(m) == {e.key : e \in m}

NeighborWalkState ==
    <<"HandshakeBegin", "HandshakeFinish", "GetNeighborsBegin", "GetNeighborsFinish",
      "GetHandshakesBegin", "GetHandshakesFinish", "GetNeighborsNeighborsBegin",
      "GetNeighborsNeighborsFinish", "NeighborsPingBegin", "NeighborsPingFinish",
      "Finished">>

NeighborWalkResult_new ==
    [new_connections |-> {}, broken_connections |-> {}, replaced_neighbors |-> {}]

\* trail, polled, full and overwritten are not fields of the struct: they
\* record, for the walk_peer_graph call in progress, the states assigned to
\* `state`, the try_recv() results obtained, the neighbors whose save()
\* found no room and the peer DB slots overwritten, in order to state
\* properties of one call.  pinged records, for the walk step in progress,
\* the peers that ping_existing_neighbors_begin took a handle for.  looked
\* records what lookup_stale_neighbors found and decided in the call.
NeighborWalk_new(neighbor) ==
    [state |-> "HandshakeBegin",
     prev_neighbor |-> {}, cur_neighbor |-> neighbor, next_neighbor |-> {},
     in_degree |-> 1, out_degree |-> 1,
     frontier |-> {}, new_frontier |-> {},
     handshake_request |-> {}, getneighbors_request |-> {},
     resolved_handshake_neighbors |-> {}, unresolved_handshake_neighbors |-> {},
     resolved_getneighbors_neighbors |-> {}, unresolved_getneighbors_neighbors |-> {},
     neighbor_replacements |-> {}, replaced_neighbors |-> {},
     unresolved_neighbor_pings |-> {},
     result |-> NeighborWalkResult_new,
     walk_step_count |-> 0, walk_min_duration |-> 20, walk_max_duration |-> 40,
     trail |-> <<>>, polled |-> {}, full |-> {}, overwritten |-> {}, pinged |-> {},
     looked |-> {}, saved |-> {}, alt |-> {}]

\* what a method hands back: the walk as it leaves it, Ok / Err / panic, the
\* error, and the Ok value
Ok(w, val) == [walk |-> w, res |-> "Ok", err |-> "None", val |-> val]
Err(w, e) == [walk |-> w, res |-> "Err", err |-> e, val |-> {}]
\* a failed assert!, a panic! or an unwrap() of None
Panic(w) == [walk |-> w, res |-> "panic", err |-> "None", val |-> {}]
\* the panic of gen_range(low, high) when low >= high
RangePanic(w) == [walk |-> w, res |-> "panic", err |-> "gen_range", val |-> {}]

add_new(w, nk) == [w EXCEPT !.result.new_connections = @ \cup {nk}]
add_broken_as_new(w, nk) == [w EXCEPT !.result.new_connections = @ \cup {nk}]
add_broken(w, nk) == [w EXCEPT !.result.broken_connections = @ \cup {nk}]
add_replaced(w, nk) == [w EXCEPT !.result.replaced_neighbors = @ \cup {nk}]

clear_connections(w) ==
    [w EXCEPT !.handshake_request = {}, !.getneighbors_request = {},
              !.resolved_handshake_neighbors = {}, !.unresolved_handshake_neighbors = {},
              !.resolved_getneighbors_neighbors = {},
              !.unresolved_getneighbors_neighbors = {},
              !.neighbor_replacements = {}, !.replaced_neighbors = {},
              !.unresolved_neighbor_pings = {}]

clear_state(w) ==
    [w EXCEPT !.new_frontier = {}, !.frontier = {}, !.result = NeighborWalkResult_new]

set_state(w, new_state) ==
    [w EXCEPT !.state = new_state, !.trail = Append(@, new_state)]

\* reset: the walk moves on to next_neighbor; the report is w.result
reset(w, next_neighbor) ==
    LET w1 == [w EXCEPT !.state = "HandshakeBegin",
                        !.trail = Append(@, "HandshakeBegin"),
                        !.prev_neighbor = {w.cur_neighbor},
                        !.cur_neighbor = next_neighbor,
                        !.in_degree = 1, !.out_degree = 1,
                        !.next_neighbor = {}]
        w2 == [clear_connections(w1) EXCEPT !.new_frontier = {},
                                            !.walk_step_count = @ + 1]
    IN  Ok(w2, {w.result})

\* ------------------------------------------------------------------------
\* What try_recv() on a reply handle gives
\* ------------------------------------------------------------------------
\* kind: the payload of the message received, or Pending (Err(Ok(handle)):
\* no reply yet) or Disconnected (Err(Err(e))).  Ping stands for every
\* payload no match arm names.  addr and whitelisted are those of the
\* Neighbor that Neighbor::from_handshake makes of a HandshakeAccept;
\* neighbors is the list of a Neighbors reply; db and slot are what the peer
\* DB answers when neighbor_handshakes_try_finish looks the neighbor up
\* ("known": Neighbor::from_neighbor_address finds it, "added": save()
\* inserts it, "full": save() returns false and find_replaced_neighbor_slot
\* gives slot).
Reply(kind, addr, whitelisted, neighbors, db, slot) ==
    [kind |-> kind, addr |-> addr, whitelisted |-> whitelisted, neighbors |-> neighbors,
     db |-> db, slot |-> slot]

Whitelisted == {-1, 0, 1}

PlainReply(kind) == Reply(kind, local_peer, 0, {}, "known", {})
AcceptFrom(addr) == Reply("HandshakeAccept", addr, 0, {}, "known", {})

OtherReplies == {PlainReply(k) : k \in {"HandshakeReject", "Nack", "Ping", "Pending", "Disconnected"}}

\* replies to a handshake with cur_neighbor or to a ping
HandshakeReplies ==
    {AcceptFrom(a) : a \in Peers} \cup {PlainReply("Neighbors")} \cup OtherReplies

\* replies to a handshake with a neighbor of cur_neighbor
NeighborHandshakeReplies ==
    {Reply("HandshakeAccept", a, 0, {}, db, {}) : a \in Peers, db \in {"known", "added", "full"}}
    \cup {Reply("HandshakeAccept", a, wl, {}, "full", {s}) : a \in Peers, wl \in Whitelisted, s \in Slots}
    \cup {PlainReply("Neighbors")} \cup OtherReplies

\* replies to a GetNeighbors whose Neighbors lists are lists of listed
NeighborsReplies(listed) ==
    {Reply("Neighbors", local_peer, 0, ns, "known", {}) : ns \in SUBSET listed}
    \cup {PlainReply("HandshakeAccept")} \cup OtherReplies

\* replies to a GetNeighbors sent to a neighbor of cur_neighbor: its list names
\* cur_neighbor not at all, once, after another peer, or twice
NeighborListReplies(cur) ==
    {Reply("Neighbors", local_peer, 0, ns, "known", {}) :
        ns \in {<<>>, <<cur>>, <<local_peer, cur>>, <<cur, cur>>}}
    \cup {PlainReply("HandshakeAccept")} \cup OtherReplies

try_recv(w, to, r) == [w EXCEPT !.polled = @ \cup {[to |-> to, kind |-> r.kind]}]

\* the orders in which a HashMap with keys S may be iterated
Orders(S) == {o \in [1..Cardinality(S) -> S] : \A i, j \in DOMAIN o : o[i] = o[j] => i = j}

\* ------------------------------------------------------------------------
\* NeighborWalk: the Begin and Finish methods
\* ------------------------------------------------------------------------
handshake_begin(w, req) ==
    IF w.state # "HandshakeBegin" THEN Panic(w)
    ELSE Ok(set_state([w EXCEPT !.handshake_request = req], "HandshakeFinish"), {})

\* "try again": the handle is kept for the next call
keep_request_dropped(w, req) == w
keep_request(w, req) == [w EXCEPT !.handshake_request = req]

handshake_try_finish(w, r, fail) ==
    IF w.state # "HandshakeFinish" THEN Panic(w)
    ELSE IF w.handshake_request = {} THEN Ok(w, {})
    ELSE LET w1 == try_recv([w EXCEPT !.handshake_request = {}], the(w.handshake_request), r)
         IN  CASE r.kind = "HandshakeAccept" ->
                    IF fail = "from_handshake" THEN Err(w1, "DBError")
                    ELSE IF r.addr # w.cur_neighbor THEN Err(w1, "PeerNotConnected")
                    ELSE IF fail = "save_update" THEN Err(w1, "DBError")
                    ELSE Ok(set_state([w1 EXCEPT !.new_frontier = @ \cup {w.cur_neighbor}],
                                      "GetNeighborsBegin"),
                            {w.cur_neighbor})
               [] r.kind = "HandshakeReject" -> Err(w1, "PeerNotConnected")
               [] r.kind = "Nack" -> Err(w1, "PeerNotConnected")
               [] r.kind = "Pending" -> Ok(keep_request(w1, w.handshake_request), {})
               [] r.kind = "Disconnected" ->
                    Err(add_broken(w1, w.cur_neighbor), "RecvError")
               [] OTHER -> Err(add_broken(w1, w.cur_neighbor), "InvalidMessage")

getneighbors_begin(w, req) ==
    IF w.state # "GetNeighborsBegin" THEN Panic(w)
    ELSE Ok(set_state([w EXCEPT !.resolved_handshake_neighbors = {},
                                !.unresolved_handshake_neighbors = {},
                                !.getneighbors_request = req],
                      "GetNeighborsFinish"), {})

\* What the peer DB holds for a reported NeighborAddress: no record
\* ("unknown"), a record whose public key hashes to the reported key hash
\* ("match": Neighbor::from_neighbor_address gives it) or a record with
\* another or an expired key ("stale_key": only PeerDB::get_peer gives it).
PeerRecords ==
    {[known |-> "unknown", last_contact_time |-> 0]}
    \cup {[known |-> k, last_contact_time |-> t] : k \in {"match", "stale_key"}, t \in 0..MaxTime}

contacted_recently_never(n, time) == FALSE
contacted_recently(n, time) ==
    ~(n.last_contact_time + NEIGHBOR_MINIMUM_CONTACT_INTERVAL < time)

\* peer_of: the peer DB record of each address; the local peer has none
lookup_stale_neighbors(addrs, peer_of, time) ==
    LET known == addrs \cap DOMAIN peer_of
        resolved == {naddr \in known :
                        IF peer_of[naddr].known = "match"
                        THEN contacted_recently(peer_of[naddr], time)
                        ELSE /\ peer_of[naddr].known # "unknown"
                             /\ contacted_recently(peer_of[naddr], time)}
    IN  [resolved |-> resolved, to_resolve |-> addrs \ resolved]

getneighbors_try_finish(w, r, peer_of, fail, time) ==
    IF w.state # "GetNeighborsFinish" THEN Panic(w)
    ELSE IF w.getneighbors_request = {} THEN Ok(w, {})
    ELSE LET w1 == try_recv([w EXCEPT !.getneighbors_request = {}],
                          the(w.getneighbors_request), r)
         IN  CASE r.kind = "Neighbors" ->
                    IF fail = "lookup_stale_neighbors" THEN Err(w1, "DBError")
                    ELSE LET l == lookup_stale_neighbors(r.neighbors, peer_of, time)
                             w2 == [w1 EXCEPT !.new_frontier = @ \cup l.resolved,
                                              !.resolved_handshake_neighbors =
                                                   @ \cup l.resolved,
                                              !.looked =
                                                   {[addr |-> a, peer |-> peer_of[a],
                                                     time |-> time,
                                                     resolved |-> a \in l.resolved] :
                                                        a \in DOMAIN peer_of}]
                         IN  Ok(set_state(w2, "GetHandshakesBegin"), {l.to_resolve})
               [] r.kind = "Nack" ->
                    Err(add_broken(w1, w.cur_neighbor), "ConnectionBroken")
               [] r.kind = "Pending" ->
                    Ok([w1 EXCEPT !.getneighbors_request = w.getneighbors_request], {})
               [] r.kind = "Disconnected" ->
                    Err(add_broken(w1, w.cur_neighbor), "RecvError")
               [] OTHER -> Err(add_broken(w1, w.cur_neighbor), "InvalidMessage")

neighbor_handshakes_begin_no_advance(w, handshake_handles) ==
    IF w.state # "GetHandshakesBegin" THEN Panic(w)
    ELSE Ok([w EXCEPT !.unresolved_handshake_neighbors = handshake_handles], {})

neighbor_handshakes_begin(w, handshake_handles) ==
    IF w.state # "GetHandshakesBegin" THEN Panic(w)
    ELSE Ok(set_state([w EXCEPT !.unresolved_handshake_neighbors = handshake_handles],
                      "GetHandshakesFinish"), {})

\* "if this peer isn't whitelisted, then consider replacing"
consider_replacing_unless_zero(whitelisted, time) == whitelisted # 0
consider_replacing(whitelisted, time) == whitelisted > 0 /\ whitelisted < time

\* one turn of the loop of neighbor_handshakes_try_finish: the reply r on the
\* handle of naddr; the Ok value is {naddr} when the handle is kept
neighbor_handshakes_reply(w, naddr, r, fail, time) ==
    LET w1 == try_recv(w, naddr, r)
    IN  CASE r.kind = "HandshakeAccept" ->
               IF fail = "from_handshake" THEN Err(w1, "DBError")
               ELSE IF r.db = "known"
               THEN LET w2 == [w1 EXCEPT !.resolved_handshake_neighbors = @ \cup {naddr},
                                         !.new_frontier = @ \cup {naddr}]
                    IN  IF fail = "save_update" THEN Err(w2, "DBError") ELSE Ok(w2, {})
               ELSE IF fail = "save" THEN Err(w1, "DBError")
               ELSE IF r.db = "added" THEN Ok([w1 EXCEPT !.new_frontier = @ \cup {r.addr}], {})
               ELSE IF fail = "find_replaced_neighbor_slot" THEN Err(w1, "DBError")
               ELSE LET w2 == IF r.slot # {} /\ consider_replacing(r.whitelisted, time)
                              THEN [w1 EXCEPT !.neighbor_replacements = @ \cup {r.addr},
                                              !.replaced_neighbors =
                                                   MapPut(@, r.addr, the(r.slot))]
                              ELSE w1
                        w3 == [w2 EXCEPT !.full = @ \cup
                                  {[addr |-> r.addr, whitelisted |-> r.whitelisted,
                                    slot |-> r.slot,
                                    recorded |-> w2.replaced_neighbors # w1.replaced_neighbors]}]
                    IN  Ok([w3 EXCEPT !.new_frontier = @ \cup {r.addr}], {})
          [] r.kind = "HandshakeReject" -> Ok(add_broken(w1, naddr), {})
          [] r.kind = "Nack" -> Ok(add_broken(w1, naddr), {})
          [] r.kind = "Pending" -> Ok(w1, {naddr})
          [] r.kind = "Disconnected" -> Ok(add_broken(w1, naddr), {})
          [] OTHER -> Ok(add_broken(w1, naddr), {})

RECURSIVE neighbor_handshakes_loop(_, _, _, _, _)
neighbor_handshakes_loop(w, order, reply_of, fail, time) ==
    IF order = <<>> THEN Ok(w, {})
    ELSE LET one == neighbor_handshakes_reply(w, Head(order), reply_of[Head(order)], fail, time)
         IN  IF one.res # "Ok" THEN one
             ELSE LET rest == neighbor_handshakes_loop(one.walk, Tail(order), reply_of, fail, time)
                  IN  IF rest.res # "Ok" THEN rest
                      ELSE Ok(rest.walk, one.val \cup rest.val)

neighbor_handshakes_try_finish(w, order, reply_of, fail, time) ==
    IF w.state # "GetHandshakesFinish" THEN Panic(w)
    ELSE LET l == neighbor_handshakes_loop([w EXCEPT !.unresolved_handshake_neighbors = {}],
                                           order, reply_of, fail, time)
         IN  IF l.res # "Ok" THEN l
             ELSE LET w1 == [l.walk EXCEPT !.unresolved_handshake_neighbors = l.val]
                  IN  IF l.val = {}
                      THEN LET neighbor_keys == w1.new_frontier \ {w1.cur_neighbor}
                               w2 == [w1 EXCEPT !.frontier = @ \cup w1.new_frontier,
                                                !.new_frontier = {}]
                           IN  Ok(set_state(w2, "GetNeighborsNeighborsBegin"),
                                  {neighbor_keys})
                      ELSE Ok(w1, {})

getneighbors_neighbors_begin(w, getneighbors_handles) ==
    IF w.state # "GetNeighborsNeighborsBegin" THEN Panic(w)
    ELSE Ok(set_state([w EXCEPT !.unresolved_getneighbors_neighbors = getneighbors_handles],
                      "GetNeighborsNeighborsFinish"), {})

\* one turn of the loop of getneighbors_neighbors_try_finish
getneighbors_neighbors_reply(w, nkey, r) ==
    LET w1 == try_recv(w, nkey, r)
    IN  CASE r.kind = "Neighbors" ->
               Ok([w1 EXCEPT !.resolved_getneighbors_neighbors =
                                  MapPut(@, nkey, r.neighbors)], {})
          [] r.kind = "Nack" -> Ok(w1, {})
          [] r.kind = "Pending" -> Ok(w1, {nkey})
          [] r.kind = "Disconnected" -> Ok(add_broken(w1, nkey), {})
          [] OTHER -> Ok(add_broken(w1, nkey), {})

RECURSIVE getneighbors_neighbors_loop(_, _, _)
getneighbors_neighbors_loop(w, order, reply_of) ==
    IF order = <<>> THEN Ok(w, {})
    ELSE LET one == getneighbors_neighbors_reply(w, Head(order), reply_of[Head(order)])
             rest == getneighbors_neighbors_loop(one.walk, Tail(order), reply_of)
         IN  Ok(rest.walk, one.val \cup rest.val)

\* the entries of the resolved neighbor lists that name the neighbor na
RECURSIVE EntriesNaming(_, _)
EntriesNaming(lists, na) ==
    IF lists = {} THEN 0
    ELSE LET e == CHOOSE x \in lists : TRUE
         IN  Cardinality({i \in DOMAIN e.val : e.val[i] = na})
             + EntriesNaming(lists \ {e}, na)

\* an estimate that counts the neighbors listing na, not the entries
in_degree_estimate_once_per_list(lists, na) ==
    1 + Cardinality({e \in lists : \E i \in DOMAIN e.val : e.val[i] = na})
in_degree_estimate(lists, na) == 1 + EntriesNaming(lists, na)

\* the degree estimates of cur_neighbor, and their save_update
estimate_degrees(w) ==
    [w EXCEPT !.in_degree = in_degree_estimate(w.resolved_getneighbors_neighbors,
                                               w.cur_neighbor),
              !.out_degree = Cardinality(w.frontier)]

save_degrees(w) ==
    [w EXCEPT !.saved = @ \cup {[addr |-> w.cur_neighbor, in_degree |-> w.in_degree,
                                 out_degree |-> w.out_degree]}]

getneighbors_neighbors_try_finish(w, order, reply_of, fail) ==
    IF w.state # "GetNeighborsNeighborsFinish" THEN Panic(w)
    ELSE LET l == getneighbors_neighbors_loop(
                      [w EXCEPT !.unresolved_getneighbors_neighbors = {}], order, reply_of)
         IN  IF l.val = {}
             THEN IF fail = "save_update" THEN Err(estimate_degrees(l.walk), "DBError")
                  ELSE Ok(set_state(save_degrees(estimate_degrees(l.walk)),
                                    "NeighborsPingBegin"),
                          {w.cur_neighbor})
             ELSE Ok([l.walk EXCEPT !.unresolved_getneighbors_neighbors = l.val], {})

\* pick_random_neighbor: order is the order in which the frontier is iterated,
\* sample what gen_range(0, frontier.len()) draws
RECURSIVE pick_from(_, _, _, _)
pick_from(order, exclude, sample, count) ==
    IF order = <<>> THEN {}
    ELSE LET c == count + (IF exclude = {Head(order)} THEN 0 ELSE 1)
         IN  IF c >= sample THEN {Head(order)}
             ELSE pick_from(Tail(order), exclude, sample, c)

pick_random_neighbor(order, exclude, sample) == pick_from(order, exclude, sample, 0)

\* what step() may draw: next is the neighbor it returns (cur_neighbor when
\* it does not step, None when the only frontier neighbor is prev_neighbor),
\* alt the alternative it drew when the first draw was prev_neighbor, failed
\* an unwrap() of a draw that gave None
Draw(next, alt, failed) == [next |-> next, alt |-> alt, failed |-> failed]

StepDraws(w) ==
    IF w.frontier = {} THEN {Draw({w.cur_neighbor}, {}, FALSE)}
    ELSE LET samples == 0..(Cardinality(w.frontier) - 1) IN
         UNION {
            LET next_neighbor == pick_random_neighbor(o, {}, sample) IN
            {Draw({w.cur_neighbor}, {}, FALSE)}
            \cup (IF next_neighbor = {} THEN {Draw({}, {}, TRUE)}
                  ELSE IF w.prev_neighbor # next_neighbor
                  THEN {Draw(next_neighbor, {}, FALSE)}
                  ELSE IF Cardinality(w.frontier) = 1 THEN {Draw({}, {}, FALSE)}
                  ELSE UNION {
                         LET alt_next_neighbor ==
                                 pick_random_neighbor(o, w.prev_neighbor, alt_sample)
                         IN  IF alt_next_neighbor = {} THEN {Draw({}, {}, TRUE)}
                             ELSE {Draw(alt_next_neighbor, alt_next_neighbor, FALSE),
                                   Draw(next_neighbor, alt_next_neighbor, FALSE)} :
                         alt_sample \in samples}) :
            o \in Orders(w.frontier), sample \in samples}

\* Neighbor::degree() of cur_neighbor draws from in_degree..out_degree
degree_fails(w) == w.in_degree >= w.out_degree + 1

step(w, drawn) ==
    IF drawn.failed THEN Panic(w)
    ELSE IF w.frontier # {} /\ degree_fails(w) THEN RangePanic(w)
    ELSE Ok([w EXCEPT !.next_neighbor = drawn.next, !.alt = drawn.alt], drawn.next)

ping_existing_neighbors_begin(w, network_handles) ==
    IF w.state # "NeighborsPingBegin" THEN Panic(w)
    ELSE Ok(set_state([w EXCEPT !.unresolved_neighbor_pings = network_handles,
                                !.pinged = network_handles],
                      "NeighborsPingFinish"), {})

\* one turn of the first loop of ping_existing_neighbors_try_finish
ping_existing_neighbors_reply(w, nkey, r, fail) ==
    LET w1 == try_recv(w, nkey, r)
    IN  CASE r.kind = "HandshakeAccept" ->
               IF fail \in {"from_handshake", "save_update"} THEN Err(w1, "DBError")
               ELSE Ok([w1 EXCEPT !.replaced_neighbors = MapRemove(@, r.addr)], {})
          [] r.kind = "Nack" -> Ok(add_broken(w1, nkey), {})
          [] r.kind = "Pending" -> Ok(w1, {nkey})
          [] r.kind = "Disconnected" -> Ok(add_broken(w1, nkey), {})
          [] OTHER -> Ok(add_broken(w1, nkey), {})

RECURSIVE ping_existing_neighbors_loop(_, _, _, _)
ping_existing_neighbors_loop(w, order, reply_of, fail) ==
    IF order = <<>> THEN Ok(w, {})
    ELSE LET one == ping_existing_neighbors_reply(w, Head(order), reply_of[Head(order)], fail)
         IN  IF one.res # "Ok" THEN one
             ELSE LET rest == ping_existing_neighbors_loop(one.walk, Tail(order), reply_of, fail)
                  IN  IF rest.res # "Ok" THEN rest
                      ELSE Ok(rest.walk, one.val \cup rest.val)

\* the second loop: every replaceable neighbor takes the slot recorded for
\* it; occupant[slot] is the peer PeerDB::get_peer_at finds there, with its
\* address and its whitelisted field
RECURSIVE do_replacements(_, _, _)
do_replacements(w, todo, occupant) ==
    IF todo = {} THEN w
    ELSE LET e == CHOOSE x \in todo : TRUE
             w1 == IF e.key \in w.neighbor_replacements /\ occupant[e.val] # {}
                   THEN [add_replaced(w, the(occupant[e.val]).addr)
                            EXCEPT !.overwritten = @ \cup
                                {[slot |-> e.val, replaced |-> the(occupant[e.val]),
                                  replacement |-> e.key]}]
                   ELSE w
         IN  do_replacements(w1, todo \ {e}, occupant)

ping_existing_neighbors_try_finish(w, order, reply_of, occupant, fail) ==
    IF w.state # "NeighborsPingFinish" THEN Panic(w)
    ELSE LET l == ping_existing_neighbors_loop([w EXCEPT !.unresolved_neighbor_pings = {}],
                                               order, reply_of, fail)
         IN  IF l.res # "Ok" THEN l
             ELSE IF l.val = {}
             THEN IF \E e \in l.walk.replaced_neighbors :
                        /\ e.key \in l.walk.neighbor_replacements
                        /\ \/ fail = "get_peer_at"
                           \/ fail = "insert_or_replace_peer" /\ occupant[e.val] # {}
                  THEN Err(l.walk, "DBError")
                  ELSE LET w1 == do_replacements(l.walk, l.walk.replaced_neighbors, occupant)
                       IN  Ok(set_state(w1, "Finished"), {w1.result.replaced_neighbors})
             ELSE Ok([l.walk EXCEPT !.unresolved_neighbor_pings = l.val], {})

\* ------------------------------------------------------------------------
\* PeerNetwork: the walk_* methods and walk_peer_graph
\* ------------------------------------------------------------------------
\* The methods work on self.walk, an Option<NeighborWalk>, and hand it back
\* in the field walk of their result.  fail names the fallible call that
\* fails in this tick, "None" when none does.
Some(r) == [r EXCEPT !.walk = {r.walk}]
NoWalkPanic == [walk |-> {}, res |-> "panic", err |-> "None", val |-> {}]

\* registered: is_registered(nk)
connect_and_handshake(w, nk, registered, fail) ==
    IF ~registered /\ fail = "connect_peer" THEN Err(w, "PeerNotConnected")
    ELSE LET w1 == IF registered THEN w ELSE add_new(w, nk)
         IN  IF fail = "sign_for_peer" THEN Err(w1, "SigningError")
             ELSE IF fail = "send_message" THEN Err(add_broken(w1, nk), "PeerNotConnected")
             ELSE Ok(w1, {nk})

\* neighbor: the neighbor get_random_neighbors picks
instantiate_walk(neighbor, fail) ==
    IF fail = "get_random_neighbors"
    THEN [walk |-> {}, res |-> "Err", err |-> "NoSuchNeighbor", val |-> {}]
    ELSE [walk |-> {NeighborWalk_new(neighbor)}, res |-> "Ok", err |-> "None", val |-> {}]

walk_handshake_begin(my_walk, neighbor, registered, fail) ==
    LET inst == IF my_walk = {} THEN instantiate_walk(neighbor, fail)
                ELSE [walk |-> my_walk, res |-> "Ok", err |-> "None", val |-> {}]
    IN  IF inst.res # "Ok" THEN inst
        ELSE LET w == the(inst.walk)
             IN  IF w.handshake_request # {} THEN Some(Ok(w, {}))
                 ELSE LET h == connect_and_handshake(clear_state(w), w.cur_neighbor,
                                                     registered, fail)
                      IN  IF h.res # "Ok" THEN Some(h)
                          ELSE Some(handshake_begin(h.walk, h.val))

walk_handshake_try_finish(my_walk, r, fail) ==
    IF my_walk = {} THEN NoWalkPanic
    ELSE IF fail = "tx_begin" THEN Some(Err(the(my_walk), "DBError"))
    ELSE LET m == handshake_try_finish(the(my_walk), r, fail)
         IN  IF m.res = "Ok" /\ fail = "commit" THEN Some(Err(m.walk, "DBError"))
             ELSE Some(m)

walk_getneighbors_begin(my_walk, fail) ==
    IF my_walk = {} THEN NoWalkPanic
    ELSE LET w == the(my_walk)
         IN  IF w.getneighbors_request # {} THEN Some(Ok(w, {}))
             ELSE IF fail = "sign_for_peer" THEN Some(Err(w, "SigningError"))
             ELSE IF fail = "send_message" THEN Some(Err(w, "SendError"))
             ELSE Some(getneighbors_begin(w, {w.cur_neighbor}))

\* what is_registered and the calls of connect_and_handshake do for one peer
ConnectInputs ==
    {[registered |-> TRUE, fail |-> f] : f \in {"None", "sign_for_peer", "send_message"}}
    \cup {[registered |-> FALSE, fail |-> f] :
             f \in {"None", "connect_peer", "sign_for_peer", "send_message"}}

\* the loop of walk_getneighbors_try_finish over the addresses to resolve:
\* a failed connect_and_handshake is skipped, what it did to the walk stays
RECURSIVE pending_handshakes(_, _, _)
pending_handshakes(w, neighbor_addrs, conn) ==
    IF neighbor_addrs = {} THEN [walk |-> w, handles |-> {}]
    ELSE LET na == CHOOSE x \in neighbor_addrs : TRUE
             h == connect_and_handshake(w, na, conn[na].registered, conn[na].fail)
             rest == pending_handshakes(h.walk, neighbor_addrs \ {na}, conn)
         IN  [walk |-> rest.walk, handles |-> h.val \cup rest.handles]

walk_getneighbors_try_finish(my_walk, r, peer_of, conn, fail, time) ==
    IF my_walk = {} THEN NoWalkPanic
    ELSE LET m == getneighbors_try_finish(the(my_walk), r, peer_of, fail, time)
         IN  IF m.res # "Ok" \/ m.val = {} THEN Some(m)
             ELSE LET neighbor_addrs == the(m.val) \ {local_peer, m.walk.cur_neighbor}
                      p == pending_handshakes(m.walk, neighbor_addrs, conn)
                  IN  Some(neighbor_handshakes_begin(p.walk, p.handles))

\* sendable: the neighbors that are registered and whose send_message works
walk_neighbor_handshakes_try_finish(my_walk, order, reply_of, sendable, fail, time) ==
    IF my_walk = {} THEN NoWalkPanic
    ELSE IF fail = "tx_begin" THEN Some(Err(the(my_walk), "DBError"))
    ELSE LET m == neighbor_handshakes_try_finish(the(my_walk), order, reply_of, fail, time)
         IN  IF m.res # "Ok" THEN Some(m)
             ELSE IF fail = "commit" THEN Some(Err(m.walk, "DBError"))
             ELSE IF m.val = {} THEN Some(m)
             ELSE IF fail = "sign_for_peer" /\ the(m.val) # {}
             THEN Some(Err(m.walk, "SigningError"))
             ELSE Some(getneighbors_neighbors_begin(m.walk, the(m.val) \cap sendable))

walk_getneighbors_neighbors_try_finish(my_walk, order, reply_of, drawn, sendable, fail) ==
    IF my_walk = {} THEN NoWalkPanic
    ELSE IF fail = "tx_begin" THEN Some(Err(the(my_walk), "DBError"))
    ELSE LET m == getneighbors_neighbors_try_finish(the(my_walk), order, reply_of, fail)
         IN  IF m.res # "Ok" THEN Some(m)
             ELSE IF fail = "commit" THEN Some(Err(m.walk, "DBError"))
             ELSE IF m.val = {} THEN Some(m)
             ELSE LET s == step(m.walk, drawn)
                      w1 == s.walk
                      to_ping == MapKeys(w1.replaced_neighbors)
                  IN  IF s.res # "Ok" THEN Some(s)
                      ELSE IF fail = "sign_for_peer" /\ to_ping # {}
                      THEN Some(Err(w1, "SigningError"))
                      ELSE LET b == ping_existing_neighbors_begin(w1, to_ping \cap sendable)
                           IN  Some([b EXCEPT !.val = IF b.res = "Ok" THEN drawn.next
                                                      ELSE {}])

\* neighbor: the neighbor get_random_neighbors picks when the walk did not step
walk_ping_existing_neighbors_try_finish(my_walk, order, reply_of, occupant, neighbor, fail) ==
    IF my_walk = {} THEN NoWalkPanic
    ELSE IF fail = "tx_begin" THEN Some(Err(the(my_walk), "DBError"))
    ELSE LET m == ping_existing_neighbors_try_finish(the(my_walk), order, reply_of,
                                                     occupant, fail)
         IN  IF m.res # "Ok" THEN Some(m)
             ELSE IF fail = "commit" THEN Some(Err(m.walk, "DBError"))
             ELSE IF m.val = {} THEN Some(m)
             ELSE LET w1 == [m.walk EXCEPT !.next_neighbor = {}]
                  IN  IF m.walk.next_neighbor # {}
                      THEN Some(reset(w1, the(m.walk.next_neighbor)))
                      ELSE IF fail = "get_random_neighbors"
                      THEN Some(Err(w1, "NoSuchNeighbor"))
                      ELSE Some(reset(w1, neighbor))

\* ------------------------------------------------------------------------
\* One call of walk_peer_graph: what the network, the peer DB and the random
\* generator may answer, per walk state
\* ------------------------------------------------------------------------
Option(S) == {{}} \cup {{x} : x \in S}
AnyOrder(S) == CHOOSE o \in Orders(S) : TRUE
\* the calls inside the loops over the reply handles
LoopFailures == {"from_handshake", "save_update", "save", "find_replaced_neighbor_slot"}
OrdersFor(S, fail) == IF fail \in LoopFailures THEN Orders(S) ELSE {AnyOrder(S)}
Finishes(m) == m.res = "Ok" /\ m.val # {}
\* the peers PeerDB::get_peer_at may find in a slot
Occupants == {[addr |-> a, whitelisted |-> wl] : a \in Peers, wl \in Whitelisted}

HandshakeBeginTicks(my_walk) ==
    {walk_handshake_begin(my_walk, n, reg, f) :
        n \in IF my_walk = {} THEN Peers ELSE {the(my_walk).cur_neighbor},
        reg \in BOOLEAN,
        f \in {"None", "get_random_neighbors", "connect_peer", "sign_for_peer", "send_message"}}

HandshakeFinishTicks(my_walk) ==
    {walk_handshake_try_finish(my_walk, r, f) :
        r \in HandshakeReplies,
        f \in {"None", "tx_begin", "from_handshake", "save_update", "commit"}}

GetNeighborsBeginTicks(my_walk) ==
    {walk_getneighbors_begin(my_walk, f) : f \in {"None", "sign_for_peer", "send_message"}}

GetNeighborsFinishTicks(my_walk, time) ==
    LET cur == the(my_walk).cur_neighbor
    IN  UNION {UNION {
            LET l == lookup_stale_neighbors(r.neighbors, peer_of, time)
            IN  {walk_getneighbors_try_finish(my_walk, r, peer_of, conn, f, time) :
                    conn \in [l.to_resolve \ {local_peer, cur} -> ConnectInputs],
                    f \in {"None", "lookup_stale_neighbors"}} :
            peer_of \in [r.neighbors \ {local_peer} -> PeerRecords]} :
            r \in NeighborsReplies(Peers \cup {local_peer})}

GetHandshakesFinishTicks(my_walk, time) ==
    LET w == the(my_walk)
        handles == w.unresolved_handshake_neighbors
    IN  UNION {UNION {UNION {
            {walk_neighbor_handshakes_try_finish(my_walk, o, reply_of, sendable, f, time) :
                sendable \in LET m == neighbor_handshakes_try_finish(w, o, reply_of, f, time)
                             IN  IF Finishes(m) THEN SUBSET the(m.val) ELSE {{}}} :
            o \in OrdersFor(handles, f)} :
            f \in {"None", "tx_begin", "commit", "sign_for_peer"} \cup LoopFailures} :
            reply_of \in [handles -> NeighborHandshakeReplies]}

GetNeighborsNeighborsFinishTicks(my_walk) ==
    LET w == the(my_walk)
        handles == w.unresolved_getneighbors_neighbors
        o == AnyOrder(handles)
    IN  UNION {UNION {
            LET done == Finishes(getneighbors_neighbors_try_finish(w, o, reply_of, f))
            IN  {walk_getneighbors_neighbors_try_finish(my_walk, o, reply_of, n, sendable, f) :
                    n \in IF done THEN StepDraws(w) ELSE {Draw({}, {}, FALSE)},
                    sendable \in IF done THEN SUBSET MapKeys(w.replaced_neighbors) ELSE {{}}} :
            f \in {"None", "tx_begin", "save_update", "commit", "sign_for_peer"}} :
            reply_of \in [handles -> NeighborListReplies(w.cur_neighbor)]}

NeighborsPingFinishTicks(my_walk) ==
    LET w == the(my_walk)
        handles == w.unresolved_neighbor_pings
    IN  UNION {UNION {UNION {
            LET l == ping_existing_neighbors_loop(w, o, reply_of, f)
                done == l.res = "Ok" /\ l.val = {}
                slots == IF done THEN {e.val : e \in l.walk.replaced_neighbors} ELSE {}
            IN  {walk_ping_existing_neighbors_try_finish(my_walk, o, reply_of, occupant, n, f) :
                    occupant \in [slots -> Option(Occupants)],
                    n \in IF done /\ w.next_neighbor = {} THEN Peers ELSE {w.cur_neighbor}} :
            o \in OrdersFor(handles, f)} :
            f \in {"None", "tx_begin", "from_handshake", "save_update", "get_peer_at",
                   "insert_or_replace_peer", "commit", "get_random_neighbors"}} :
            reply_of \in [handles -> HandshakeReplies]}

\* the match on walk_state
WalkTicks(my_walk, walk_state, time) ==
    CASE walk_state = "HandshakeBegin" -> HandshakeBeginTicks(my_walk)
      [] walk_state = "HandshakeFinish" -> HandshakeFinishTicks(my_walk)
      [] walk_state = "GetNeighborsBegin" -> GetNeighborsBeginTicks(my_walk)
      [] walk_state = "GetNeighborsFinish" -> GetNeighborsFinishTicks(my_walk, time)
      [] walk_state = "GetHandshakesFinish" -> GetHandshakesFinishTicks(my_walk, time)
      [] walk_state = "GetNeighborsNeighborsFinish" ->
             GetNeighborsNeighborsFinishTicks(my_walk)
      [] walk_state = "NeighborsPingFinish" -> NeighborsPingFinishTicks(my_walk)
      [] OTHER -> {[walk |-> my_walk, res |-> "panic", err |-> "None", val |-> {}]}

\* The arms of the match on walk_state: a step of a walk takes one call of
\* walk_peer_graph per arm
TickStates ==
    {"HandshakeBegin", "HandshakeFinish", "GetNeighborsBegin", "GetNeighborsFinish",
     "GetHandshakesFinish", "GetNeighborsNeighborsFinish", "NeighborsPingFinish"}
TicksPerStep == Cardinality(TickStates)
\* The model picks the walker up at the start (no walk, walk_count 0) or
\* late: in a walk that has taken k steps and is one call short of ending
\* step k + 1.  The late walk is the one that the calls lead to when the
\* neighbor 1 answers every handshake and reports no neighbors, no call
\* fails and the walk stays at 1: every step then takes TicksPerStep calls.
StepsTaken == {1, 19, 39}
WalkCountAt(k) == TicksPerStep * k + (TicksPerStep - 1)
WalkAt(k) ==
    [NeighborWalk_new(1) EXCEPT !.state = "NeighborsPingFinish",
                                !.prev_neighbor = {1}, !.next_neighbor = {1},
                                !.frontier = {1}, !.walk_step_count = k]

\* the model follows MaxWalkCount successful calls from the start and
\* MaxLateTicks from a walk picked up late
TickLimit(count) ==
    LET late == {WalkCountAt(k) : k \in {j \in StepsTaken : WalkCountAt(j) <= count}}
    IN  IF late = {} THEN MaxWalkCount
        ELSE (CHOOSE m \in late : \A l \in late : l <= m) + MaxLateTicks

WalkInit ==
    \/ Init
    \/ \E k \in StepsTaken :
          /\ IndexerInit
          /\ walk = {WalkAt(k)}
          /\ walk_count = WalkCountAt(k)
          /\ walk_deadline = walk_interval
          /\ now = 0
          /\ last_tick = [NoTick EXCEPT !.walks = k]

\* self.walk as it is kept between two calls
Kept(my_walk) ==
    {[w EXCEPT !.trail = <<>>, !.polled = {}, !.full = {}, !.overwritten = {},
               !.looked = {}, !.saved = {}, !.alt = {},
               !.pinged = IF w.state = "HandshakeBegin" THEN {} ELSE @] : w \in my_walk}

\* the random restart of the Ok branch; sample: sample < walk.walk_reset_prob
random_restart_by_sample(my_walk, count, sample) ==
    /\ my_walk # {}
    /\ count > NUM_INITIAL_WALKS
    /\ the(my_walk).walk_step_count >= the(my_walk).walk_min_duration
    /\ sample
random_restart(my_walk, count, sample) ==
    /\ my_walk # {}
    /\ count > NUM_INITIAL_WALKS
    /\ the(my_walk).walk_step_count >= the(my_walk).walk_min_duration
    /\ \/ the(my_walk).walk_step_count >= the(my_walk).walk_max_duration
       \/ sample

\* the Err branch: "Restarting neighbor with new random neighbors"
restart_on_error_keeps_walk(my_walk) == Kept(my_walk)
restart_on_error(my_walk) == {}

\* ret: what walk_peer_graph returns; overwritten: the slots overwritten in
\* the transaction of the call, which an error rolls back; steps: the
\* walk_step_count the call leaves; walks: the calls so far that returned a
\* walk result; looked and handshakes: the peer DB records that
\* lookup_stale_neighbors found, and the neighbors a handshake was sent to
TickRecord(walk_state, t, walks) ==
    IF t.walk = {}
    THEN [NoTick EXCEPT !.from = walk_state, !.res = t.res, !.err = t.err, !.walks = walks]
    ELSE LET w == the(t.walk)
             walk_opt == IF t.res = "Ok" /\ walk_state = "NeighborsPingFinish" THEN t.val
                         ELSE {}
         IN  [from |-> walk_state, res |-> t.res, err |-> t.err,
              ret |-> walk_opt,
              steps |-> w.walk_step_count,
              looked |-> w.looked,
              handshakes |-> IF walk_state = "GetNeighborsFinish" /\ t.res = "Ok"
                             THEN w.unresolved_handshake_neighbors ELSE {},
              walks |-> IF walk_opt = {} THEN walks ELSE walks + 1,
              trail |-> w.trail, polled |-> w.polled,
              broken |-> w.result.broken_connections,
              full |-> w.full,
              overwritten |-> IF t.res = "Ok" THEN w.overwritten ELSE {},
              saved |-> IF t.res = "Ok" THEN w.saved ELSE {},
              pinged |-> w.pinged, alt |-> w.alt, seq |-> 0]

\* one call of walk_peer_graph that leaves walk_count at count_after when it
\* succeeds, and last_tick.seq at seq_after
walk_peer_graph_call(count_after, seq_after) ==
    /\ last_tick.res # "panic"
    /\ LET walk_state == IF walk = {} THEN "HandshakeBegin" ELSE the(walk).state
       IN  IF walk = {} /\ walk_count > NUM_INITIAL_WALKS /\ walk_deadline > now
           THEN /\ last_tick' = [NoTick EXCEPT !.from = walk_state, !.res = "throttled",
                                                !.walks = last_tick.walks,
                                                !.seq = seq_after]
                /\ UNCHANGED <<walk, walk_count, walk_deadline>>
           ELSE \E t \in WalkTicks(walk, walk_state, now) :
                  /\ last_tick' = [TickRecord(walk_state, t, last_tick.walks)
                                      EXCEPT !.seq = seq_after]
                  /\ CASE t.res = "Ok" ->
                            /\ walk_count' = count_after
                            /\ walk_deadline' = walk_interval + now
                            /\ \E sample \in BOOLEAN :
                                  walk' = IF random_restart(t.walk, walk_count', sample)
                                          THEN {} ELSE Kept(t.walk)
                       [] t.res = "Err" ->
                            /\ walk' = restart_on_error(t.walk)
                            /\ UNCHANGED <<walk_count, walk_deadline>>
                       [] OTHER -> UNCHANGED <<walk, walk_count, walk_deadline>>
    /\ UNCHANGED now
    /\ UNCHANGED indexer_vars

walk_peer_graph ==
    /\ walk_count < TickLimit(walk_count)
    /\ walk_peer_graph_call(walk_count + 1, last_tick.seq)

\* the clock moves on
TimePasses ==
    /\ now < MaxTime
    /\ now' = now + 1
    /\ UNCHANGED <<walk, walk_count, walk_deadline, last_tick>>
    /\ UNCHANGED indexer_vars

WalkNext == walk_peer_graph \/ TimePasses

WalkSpec == WalkInit /\ [][WalkNext]_vars

\* ------------------------------------------------------------------------
\* LiveSpec: the walker called again and again, every reply handle resolving
\* ------------------------------------------------------------------------
\* The walker is picked up late, past its initial walks and in a walk that the
\* restart rule applies to from its next step on: from there on the
\* code only asks whether walk_count > NUM_INITIAL_WALKS, so the model stops
\* counting the calls.  It follows the walk until MaxLiveSteps more steps have
\* been completed or the walk is discarded, all within one unit of the clock
\* (the clock stands at MaxTime, where a peer DB record may be fresh or stale).
\* last_tick.seq tells one call from the next, so that a call that changes
\* nothing is a step too.
LiveInit ==
    \E k \in {j \in StepsTaken : j + 1 >= WalkAt(j).walk_min_duration} :
        /\ IndexerInit
        /\ walk = {WalkAt(k)}
        /\ walk_count = NUM_INITIAL_WALKS + 1
        /\ walk_deadline = walk_interval + MaxTime
        /\ now = MaxTime
        /\ last_tick = [NoTick EXCEPT !.walks = k]

LiveGuard ==
    /\ \A k \in StepsTaken : last_tick.walks # k + MaxLiveSteps
    /\ walk # {}

LiveTick ==
    /\ LiveGuard
    /\ walk_peer_graph_call(walk_count, 1 - last_tick.seq)

\* a call can be made; the handles it polls can all be resolved
ResolvedEnabled ==
    /\ LiveGuard
    /\ last_tick.res # "panic"

LiveNext == LiveTick

\* a step of LiveNext is such a call when the call it records polled no
\* pending handle
ResolvedStep == \A p \in last_tick'.polled : p.kind # "Pending"

\* walk_peer_graph is called for ever, and no handle stays pending for ever
\* (it is answered, or broken once NEIGHBOR_REQUEST_TIMEOUT has passed): weak
\* fairness of the calls that poll no pending handle, WF_vars written out as
\* "disabled again and again, or taken again and again"
ResolvedFairness ==
    \/ []<>(~ResolvedEnabled)
    \/ []<><<ResolvedStep>>_vars

LiveSpec == LiveInit /\ [][LiveNext]_vars /\ ResolvedFairness

\* ------------------------------------------------------------------------
\* Properties
\* ------------------------------------------------------------------------
Canonical(rows) == {r \in rows : r.canonical}
AppendStep == last_append'.seq # last_append.seq
ReorgStep == reorg_event'.seq # reorg_event.seq
SameKey(c, d) ==
    /\ c.block_number - c.key_block_backptr = d.block_number - d.key_block_backptr
    /\ c.key_vtxindex = d.key_vtxindex

\* C1: a cycle in which no stage fails ends with sync() returning
\* Ok(end_block): sync() never waits forever for a worker that waits on an
\* empty queue, and it does not crash.
C1_ErrorFreeSyncReturnsOk ==
    ~stage_error => (~WaitsForever /\ pc # "panicked")

\* C2: append_block is all-or-nothing: after Ok the block's snapshot and
\* every accepted leader key and block commit are in the DB and the earlier
\* rows are still there; after an error or abort the DB is what it was.
C2_AppendAllOrNothing ==
    [][AppendStep =>
        IF last_append'.result = "Ok"
        THEN /\ \E sn \in Canonical(burndb'.snapshots) :
                    /\ sn.block_height = last_append'.block_height
                    /\ sn.burn_header_hash = last_append'.block_hash
             /\ \A i \in 1..Len(last_append'.accepted) :
                    LET op == last_append'.accepted[i] IN
                    /\ IsKey(op) => op \in burndb'.leader_keys
                    /\ IsCommit(op) => op \in burndb'.block_commits
             /\ burndb.snapshots \subseteq burndb'.snapshots
             /\ burndb.leader_keys \subseteq burndb'.leader_keys
             /\ burndb.block_commits \subseteq burndb'.block_commits
             /\ burndb.user_burns \subseteq burndb'.user_burns
        ELSE burndb' = burndb]_vars

\* an append that failed after check_block had accepted operations
C2_Witness ==
    /\ last_append.result = "Err"
    /\ last_append.accepted # <<>>
    /\ nops > 0

\* C3: the blocks applied in a cycle are the fed headers, in the order they
\* were fed, at strictly ascending heights and without a gap.
C3_AppliedInFedOrder ==
    /\ Len(applied) <= Len(local.input_headers)
    /\ applied = SubSeq(local.input_headers, 1, Len(applied))
    /\ \A i \in 1..Len(applied) : applied[i].height = local.sync_height + i

\* two blocks applied in one cycle while a third header is in the pipeline
C3_Witness ==
    /\ Len(applied) >= 2
    /\ local.fed = 3

\* C4: when sync() has returned Ok(h), the DB is at the headers tip and h is
\* that height.
C4_SyncOkAtTip ==
    pc = "returned_ok" =>
        /\ ret.kind = "Ok"
        /\ ret.value = get_headers_height(headers)
        /\ get_block_height(burndb) = ret.value

StaleHeaders ==
    \E h \in 1..Len(headers) :
        /\ \E r \in burndb.snapshots :
              ~r.canonical /\ r.burn_header_hash = HeaderHash(h, headers[h])
        /\ ~\E s \in Canonical(burndb.snapshots) :
              s.burn_header_hash = HeaderHash(h, headers[h])

\* C7: no block is applied while the headers file still holds headers of
\* snapshots that a reorg invalidated.
C7_NoApplyOnStaleHeaders ==
    [][applied' # applied /\ applied' # <<>> => ~StaleHeaders]_vars

\* C8: a cycle in which a stage failed ends with sync() returning an error:
\* sync() neither crashes nor waits forever.
C8_StageErrorReturnsErr ==
    stage_error => (pc \notin {"panicked", "returned_ok"} /\ ~WaitsForever)

\* C9: every persisted block commit has its leader key in the DB at
\* (block_number - key_block_backptr, key_vtxindex), canonical when the
\* commit is, and the consumed-key lookup never aborts.
C9_CommitHasLeaderKey ==
    /\ last_append.result # "Panic"
    /\ \A c \in burndb.block_commits :
          \E k \in burndb.leader_keys :
              /\ k.block_number = c.block_number - c.key_block_backptr
              /\ k.vtxindex = c.key_vtxindex
              /\ (c.canonical => k.canonical)

\* a commit that reaches two blocks back for its key has been persisted
C9_Witness ==
    \E c \in Canonical(burndb.block_commits) : c.key_block_backptr = 2

\* C10: no leader key is consumed by two accepted block commits.
C10_KeyConsumedOnce ==
    \A c \in Canonical(burndb.block_commits), d \in Canonical(burndb.block_commits) :
        SameKey(c, d) => c = d

\* ------------------------------------------------------------------------
\* Properties of the snapshots
\* ------------------------------------------------------------------------
RECURSIVE SumFeesOf(_)
SumFeesOf(ops) ==
    IF ops = {} THEN 0
    ELSE LET o == CHOOSE x \in ops : TRUE IN o.burn_fee + SumFeesOf(ops \ {o})

\* the canonical commits and user burns stored at a height
CommitsAt(db, h) == {c \in Canonical(db.block_commits) : c.block_number = h}
UserBurnsAt(db, h) == {u \in Canonical(db.user_burns) : u.block_number = h}
StoredBurn(db, h) == SumFeesOf(CommitsAt(db, h) \cup UserBurnsAt(db, h))

\* the heights above the first that have a canonical snapshot
ChainHeights == (first_block_height + 1)..get_block_height(burndb)
Snap(h) == get_block_snapshot(burndb, h)

\* a user burn of the block supports one of its commits and that commit's key
MatchesCommit(db, u, c) ==
    /\ c.burn_header_hash = u.burn_header_hash
    /\ Hash160(c.block_header_hash) = u.block_header_hash
    /\ \E k \in Canonical(db.leader_keys) :
          /\ k.block_number = c.block_number - c.key_block_backptr
          /\ k.vtxindex = c.key_vtxindex
          /\ k.public_key = u.public_key

\* the accepted user burns of the last append that no accepted commit matches
UnmatchedAccepted(db, accepted) ==
    {u \in {accepted[i] : i \in 1..Len(accepted)} :
        /\ IsUserBurn(u)
        /\ ~\E i \in 1..Len(accepted) :
              IsCommit(accepted[i]) /\ MatchesCommit(db, u, accepted[i])}

\* C11: a user burn is written only with a stored commit of the same block
\* that it matches (block header hash as Hash160, VRF key of the consumed
\* leader key); an accepted user burn without one is not written; accepted
\* leader keys and block commits are always written.
C11_UserBurnOnlyWithCommit ==
    [][(AppendStep /\ last_append'.result = "Ok") =>
        /\ \A u \in burndb'.user_burns \ burndb.user_burns :
              \E c \in burndb'.block_commits : MatchesCommit(burndb', u, c)
        /\ \A u \in UnmatchedAccepted(burndb', last_append'.accepted) :
              u \notin burndb'.user_burns
        /\ \A i \in 1..Len(last_append'.accepted) :
              LET op == last_append'.accepted[i] IN
              /\ IsKey(op) => op \in burndb'.leader_keys
              /\ IsCommit(op) => op \in burndb'.block_commits]_vars

\* a matched user burn is in the DB and the last block's accepted user burn,
\* which matched nothing, is not
C11_Witness ==
    /\ last_append.result = "Ok"
    /\ Canonical(burndb.user_burns) # {}
    /\ UnmatchedAccepted(burndb, last_append.accepted) # {}

\* the snapshot append_block_ops makes of ops on top of db
SnapshotOf(db, h, f, ops) ==
    LET r == append_block_ops(db, h, HeaderHash(h, f), TipHash(db), ops, "none")
    IN  IF r.result = "Ok" THEN get_block_snapshot(r.db, h) ELSE NoRec

SameOutcome(s, t) ==
    /\ s.ops_hash = t.ops_hash
    /\ s.consensus_hash = t.consensus_hash
    /\ s.total_burn = t.total_burn
    /\ s.sortition = t.sortition
    /\ s.sortition_burn = t.sortition_burn
    /\ s.burn_quota = t.burn_quota
    /\ s.winning_block_txid = t.winning_block_txid

\* C12: from any state of the ledger, appending a block's accepted operations
\* and appending them without the unmatched user burns give the same
\* ops_hash, consensus_hash, total_burn and sortition outcome.
C12_UnmatchedBurnsInfluenceNothing ==
    \A txs \in BlockChoices :
        LET h == get_block_height(burndb) + 1
            block == [block_height |-> h, block_hash |-> HeaderHash(h, nfork),
                      parent_block_hash |-> TipHash(burndb), txs |-> txs]
            ops == check_block(burndb, block, "none").ops
            with == SnapshotOf(burndb, h, nfork, ops)
            Matched(o) == o \notin UnmatchedAccepted(StoreAll(burndb, SelectSeq(ops, IsKey)), ops)
            without == SnapshotOf(burndb, h, nfork, SelectSeq(ops, Matched))
        IN  (with # NoRec /\ without # NoRec) => SameOutcome(with, without)

\* a block with a sortition was appended whose accepted operations held a
\* user burn that matched no commit
C12_Witness ==
    /\ last_append.result = "Ok"
    /\ UnmatchedAccepted(burndb, last_append.accepted) # {}
    /\ \E s \in Canonical(burndb.snapshots) :
          s.burn_header_hash = last_append.block_hash /\ s.sortition

\* the burn quota is met by the burn since the last sortition and this block's
QuotaMet(h) == Snap(h - 1).sortition_burn + StoredBurn(burndb, h) >= Snap(h - 1).burn_quota

\* C14 as stated: sortition iff the burn of the block alone is at least the
\* burn quota at entry and the block has a commit.
C14_SortitionIffBlockBurnMeetsQuota ==
    \A h \in ChainHeights :
        Snap(h).sortition <=>
            (StoredBurn(burndb, h) >= Snap(h - 1).burn_quota /\ CommitsAt(burndb, h) # {})

\* C14: a snapshot has sortition = true if and only if the burn accumulated
\* since the last sortition plus the burn of its block is at least the burn
\* quota at entry and the block contains at least one valid block commit.
C14_SortitionIffAccumulatedBurnMeetsQuota ==
    \A h \in ChainHeights :
        Snap(h).sortition <=> (QuotaMet(h) /\ CommitsAt(burndb, h) # {})

\* a sortition in a block whose own burn is below the quota at entry
C14_Witness ==
    \E h \in ChainHeights :
        /\ Snap(h).sortition
        /\ StoredBurn(burndb, h) < Snap(h - 1).burn_quota

C16_SortitionBurnAccumulates ==
    \A h \in ChainHeights :
        Snap(h).sortition_burn =
            IF Snap(h).sortition THEN 0
            ELSE Snap(h - 1).sortition_burn + StoredBurn(burndb, h)

\* two blocks in a row burned without reaching the quota
C16_Witness ==
    \E h \in ChainHeights :
        /\ ~Snap(h).sortition
        /\ Snap(h - 1).sortition_burn > 0
        /\ Snap(h).sortition_burn > Snap(h - 1).sortition_burn

RECURSIVE BurnUpTo(_, _)
BurnUpTo(db, h) ==
    IF h <= first_block_height THEN 0 ELSE StoredBurn(db, h) + BurnUpTo(db, h - 1)

\* C17: total_burn at H is total_burn of the canonical snapshot at H - 1 plus
\* the fees of the commits and user burns stored at H; it never decreases
\* along the canonical chain and counts no burn of an invalidated block.
C17_TotalBurnAccumulates ==
    \A h \in ChainHeights :
        /\ Snap(h).total_burn = Snap(h - 1).total_burn + StoredBurn(burndb, h)
        /\ Snap(h).total_burn >= Snap(h - 1).total_burn
        /\ Snap(h).total_burn = BurnUpTo(burndb, h)

\* a block with a matched user burn was appended at a height whose earlier
\* block, which had burned as well, a reorg had invalidated
C17_Witness ==
    \E h \in ChainHeights :
        /\ UserBurnsAt(burndb, h) # {}
        /\ \E c \in burndb.block_commits :
              ~c.canonical /\ c.block_number = h /\ c.burn_fee > 0

\* C18: without a sortition the winning txid and the winning burn hash are
\* all-zero; with a sortition the winning burn hash is the snapshot's own
\* burn header hash and the winning txid is the txid of a commit of the block.
C18_WinnerIsCommitOfBlock ==
    \A h \in ChainHeights :
        IF Snap(h).sortition
        THEN /\ Snap(h).winning_block_burn_hash = Snap(h).burn_header_hash
             /\ \E c \in CommitsAt(burndb, h) :
                   /\ c.burn_header_hash = Snap(h).burn_header_hash
                   /\ c.txid = Snap(h).winning_block_txid
        ELSE /\ Snap(h).winning_block_txid = ZeroTxid
             /\ Snap(h).winning_block_burn_hash = ZeroBurnHash

\* a sortition among two commits, and a block without sortition
C18_Witness ==
    /\ \E h \in ChainHeights :
          Snap(h).sortition /\ Cardinality(CommitsAt(burndb, h)) = 2
    /\ \E h \in ChainHeights : ~Snap(h).sortition /\ CommitsAt(burndb, h) # {}

\* ------------------------------------------------------------------------
\* Properties of the peer graph walker
\* ------------------------------------------------------------------------
StateIndex(s) == CHOOSE i \in DOMAIN NeighborWalkState : NeighborWalkState[i] = s
\* the states `state` went through in the most recent walk_peer_graph call
TickPath == <<last_tick.from>> \o last_tick.trail

\* an assert! of a walk state, a panic! of walk_peer_graph or an unwrap() failed
AssertionFailed == last_tick.res = "panic" /\ last_tick.err = "None"

\* C19: in every walk_peer_graph call the walk state only moves to its
\* immediate successor in the order of NeighborWalkState, or from Finished
\* back to HandshakeBegin by reset(); the walk kept for the next call is in
\* the last state of that path (or was discarded); and no assert! of a walk
\* state and no panic! of walk_peer_graph is hit.
C19_WalkStateAdvancesInOrder ==
    /\ ~AssertionFailed
    /\ \A i \in 1..Len(last_tick.trail) :
          \/ StateIndex(TickPath[i + 1]) = StateIndex(TickPath[i]) + 1
          \/ TickPath[i] = "Finished" /\ TickPath[i + 1] = "HandshakeBegin"
    /\ walk # {} /\ last_tick.res = "Ok" => the(walk).state = TickPath[Len(TickPath)]

\* a walk step was completed: the call that polled the pings went through
\* Finished and reset the walk to HandshakeBegin
C19_Witness ==
    /\ last_tick.from = "NeighborsPingFinish"
    /\ last_tick.trail = <<"Finished", "HandshakeBegin">>
    /\ walk # {}
    /\ the(walk).walk_step_count = 1

FinishStates ==
    {"HandshakeFinish", "GetNeighborsFinish", "GetHandshakesFinish",
     "GetNeighborsNeighborsFinish", "NeighborsPingFinish"}
\* the payloads a Finish state has a match arm for, other than Nack
ExpectedReplies ==
    [HandshakeFinish |-> {"HandshakeAccept", "HandshakeReject"},
     GetNeighborsFinish |-> {"Neighbors"},
     GetHandshakesFinish |-> {"HandshakeAccept", "HandshakeReject"},
     GetNeighborsNeighborsFinish |-> {"Neighbors"},
     NeighborsPingFinish |-> {"HandshakeAccept"}]
Messages == {"HandshakeAccept", "HandshakeReject", "Neighbors", "Nack", "Ping"}
OutOfSequence(state, kind) == kind \in Messages \ ({"Nack"} \cup ExpectedReplies[state])

\* C20 as claimed: in every Finish state a reply that is a NACK or an
\* out-of-sequence message puts the replying neighbor into
\* result.broken_connections.
C20_NackOrOutOfSequenceIsBroken ==
    last_tick.from \in FinishStates =>
        \A p \in last_tick.polled :
            p.kind = "Nack" \/ OutOfSequence(last_tick.from, p.kind)
                => p.to \in last_tick.broken

\* C20, amended: an out-of-sequence reply puts the replying neighbor into
\* result.broken_connections in every Finish state; a NACK does so in
\* GetNeighborsFinish, GetHandshakesFinish and NeighborsPingFinish, while a
\* NACK in HandshakeFinish leaves broken_connections empty.
C20_OutOfSequenceIsBroken ==
    last_tick.from \in FinishStates =>
        \A p \in last_tick.polled :
            /\ OutOfSequence(last_tick.from, p.kind) => p.to \in last_tick.broken
            /\ p.kind = "Nack" /\ last_tick.from \in {"GetNeighborsFinish",
                                                      "GetHandshakesFinish",
                                                      "NeighborsPingFinish"}
                  => p.to \in last_tick.broken
            /\ p.kind = "Nack" /\ last_tick.from = "HandshakeFinish"
                  => last_tick.broken = {}

\* a neighbor of cur_neighbor answered the handshake with a NACK and is in
\* broken_connections
C20_Witness ==
    /\ last_tick.from = "GetHandshakesFinish"
    /\ \E p \in last_tick.polled : p.kind = "Nack" /\ p.to \in last_tick.broken

\* C21: the eviction flow never overwrites the peer DB slot of an existing
\* permanently whitelisted peer (whitelisted < 0).
C21_PermanentlyWhitelistedKeepsSlot ==
    \A o \in last_tick.overwritten : o.replaced.whitelisted >= 0

\* C23: when save() finds no room for a newly handshaked neighbor, an
\* eviction candidate is recorded only if the new neighbor is not permanently
\* whitelisted; for a permanently whitelisted one no candidate is recorded.
C23_CandidateOnlyIfNotPermanentlyWhitelisted ==
    /\ \A f \in last_tick.full : f.recorded => f.whitelisted >= 0
    /\ \A f \in last_tick.full : f.whitelisted < 0 => ~f.recorded

\* save() found no room for a permanently whitelisted new neighbor, a slot it
\* collides with was found, and the walk goes on without a candidate for it
C23_Witness ==
    /\ last_tick.res = "Ok"
    /\ walk # {}
    /\ \E f \in last_tick.full :
          /\ f.whitelisted < 0 /\ f.slot # {}
          /\ f.addr \notin MapKeys(the(walk).replaced_neighbors)

\* C24: a slot is overwritten only after the existing peer occupying it was
\* sent a handshake ping and failed to answer it.
C24_OverwrittenOnlyAfterFailedPing ==
    \A o \in last_tick.overwritten :
        /\ o.replaced.addr \in last_tick.pinged
        /\ o.replaced.addr \in last_tick.broken

\* C25: a call of walk_peer_graph that succeeds discards the walk only when
\* the walk has taken walk_min_duration steps, and always when it has taken
\* walk_max_duration steps; the walk kept between two calls has never taken
\* more than walk_max_duration steps.
C25_RestartBetweenMinAndMax ==
    /\ last_tick.res = "Ok" /\ walk = {} =>
           last_tick.steps >= NeighborWalk_new(1).walk_min_duration
    /\ last_tick.res = "Ok" /\ last_tick.steps >= NeighborWalk_new(1).walk_max_duration =>
           walk = {}
    /\ \A w \in walk : w.walk_step_count <= w.walk_max_duration

C25_Witness ==
    /\ last_tick.res = "Ok"
    /\ last_tick.ret # {}
    /\ last_tick.steps = NeighborWalk_new(1).walk_max_duration
    /\ walk = {}

\* C26: walk_count counts the walks completed: a call of walk_peer_graph is
\* held back by the deadline only after NUM_INITIAL_WALKS calls have
\* returned a walk result.
C26_DeadlineOnlyAfterInitialWalks ==
    last_tick.res = "throttled" => last_tick.walks >= NUM_INITIAL_WALKS

\* C27: no call of walk_peer_graph panics; a call in which an error is
\* raised returns None and leaves no walk; the next call that the deadline
\* permits starts from HandshakeBegin, and the walk it leaves, if any, is a
\* new walk at a neighbor picked from the peer DB.
FreshWalk(w) ==
    /\ w.state = "HandshakeFinish"
    /\ w.cur_neighbor \in Peers
    /\ w.handshake_request = {w.cur_neighbor}
    /\ w.walk_step_count = 0
    /\ w.prev_neighbor = {} /\ w.next_neighbor = {}
    /\ w.frontier = {} /\ w.new_frontier = {}
    /\ w.result.broken_connections = {} /\ w.result.replaced_neighbors = {}

C27_ErrorsAbsorbed ==
    /\ [](~AssertionFailed)
    /\ [](last_tick.res = "Err" => walk = {} /\ last_tick.ret = {})
    /\ [][walk = {} /\ last_tick' # last_tick /\ last_tick'.res # "throttled" =>
             /\ last_tick'.from = "HandshakeBegin"
             /\ \A w \in walk' : FreshWalk(w)]_vars

C27_Witness ==
    /\ last_tick.res = "Err"
    /\ last_tick.err = "InvalidMessage"
    /\ last_tick.broken # {}
    /\ walk = {}

Downloaded == local.fed - Len(chan["downloader"])

C29_QueuesHoldOneItem ==
    /\ [](Len(chan["parser"]) <= 1 /\ Len(chan["db"]) <= 1)
    /\ [][\A q \in {"parser", "db"} : Len(chan'[q]) > Len(chan[q]) => chan[q] = <<>>]_vars
    /\ [](~stage_error => Downloaded - Len(applied) <= 4)

\* both queues are full, both producers hold an item and a header is left
C29_Witness ==
    /\ thr["download"] = "send" /\ Len(chan["parser"]) = 1
    /\ thr["parse"] = "send" /\ Len(chan["db"]) = 1
    /\ Downloaded - Len(applied) = 4
    /\ Len(chan["downloader"]) = 1
    /\ local.fed < Len(local.input_headers)

\* C30: a sync() that finds the headers file below the height of the DB
\* returns MissingHeaders (DBError when the DB height cannot be read) and
\* changes nothing: no snapshot is invalidated, the headers file is neither
\* cut nor extended, no worker is started and no block is applied.
MissingHeaders ==
    /\ BetweenCycles
    /\ get_headers_height(headers) < get_block_height(burndb)

Opcodes == {LEADER_KEY_REGISTER_OPCODE, LEADER_BLOCK_COMMIT_OPCODE,
            USER_BURN_SUPPORT_OPCODE}

\* the positions of the transactions of the last block whose opcode is one of
\* the three kinds and whose decoder succeeds
Decodable(txs) == {i \in 1..Len(txs) : txs[i].opcode \in Opcodes /\ txs[i].data_ok}

\* C31: the operations a block's transactions are classified to are exactly
\* one operation per transaction with a known opcode and decodable data, of
\* the kind of that opcode, in transaction order; a transaction with another
\* opcode or with a failing decoder yields no operation and the transactions
\* after it are still classified
C31_ClassifiedByOpcode ==
    \A c \in last_append.classified :
        LET txs == last_append.txs IN
        /\ Len(c) = Cardinality(Decodable(txs))
        /\ \A k \in 1..Len(c) :
              /\ c[k].vtxindex \in Decodable(txs)
              /\ c[k].opcode = txs[c[k].vtxindex].opcode
              /\ c[k].public_key = txs[c[k].vtxindex].public_key
              /\ k > 1 => c[k - 1].vtxindex < c[k].vtxindex

\* a block holding a transaction whose decoder fails is appended, the
\* transaction after the failing one accepted
C31_Witness ==
    /\ last_append.result = "Ok"
    /\ \E i \in 1..Len(last_append.txs) :
          /\ last_append.txs[i].opcode \in Opcodes
          /\ ~last_append.txs[i].data_ok
          /\ \E k \in 1..Len(last_append.accepted) : last_append.accepted[k].vtxindex > i
\* the code an operation's check returns on the DB, and the Ok code of its kind
CheckCode(db, op) ==
    CASE IsKey(op) -> LeaderKeyRegisterOp_check(db, op)
      [] IsCommit(op) -> LeaderBlockCommitOp_check(db, op)
      [] IsUserBurn(op) -> UserBurnSupportOp_check(db, op)

OkCode(op) ==
    CASE IsKey(op) -> "LeaderKeyOk"
      [] IsCommit(op) -> "BlockCommitOk"
      [] IsUserBurn(op) -> "UserBurnSupportOk"

\* the positions of the classified operations whose check returns their Ok code
Passing(db, c) == {k \in 1..Len(c) : CheckCode(db, c[k]) = OkCode(c[k])}

\* C32: check_block accepts, in transaction order, exactly the classified
\* operations whose check on the DB returned the Ok code of their kind: an
\* operation with another code is dropped and the ones after it are still
\* checked; when a check returns an error the block is aborted, no operation
\* accepted and the DB left as it was
C32_AcceptedAreThePassingOps ==
    [][AppendStep =>
        \A c \in last_append'.classified :
            LET acc == last_append'.accepted IN
            \/ /\ last_append'.result = "Err"
               /\ acc = <<>>
               /\ burndb' = burndb
            \/ /\ Len(acc) = Cardinality(Passing(burndb, c))
               /\ \A k \in Passing(burndb, c) : \E i \in 1..Len(acc) : acc[i] = c[k]
               /\ \A i \in 1..Len(acc) : \E k \in Passing(burndb, c) : acc[i] = c[k]
               /\ \A i \in 2..Len(acc) : acc[i - 1].vtxindex < acc[i].vtxindex]_vars

\* a block whose first operation was rejected and whose second was accepted
C32_Witness ==
    /\ last_append.result = "Ok"
    /\ \E c \in last_append.classified :
          /\ Len(c) >= 2
          /\ Len(last_append.accepted) >= 1
          /\ c[1] # last_append.accepted[1]
          /\ c[2] = last_append.accepted[1]
\* ------------------------------------------------------------------------
\* Degree estimates and the step of the walk
\* ------------------------------------------------------------------------
\* the call completed GetNeighborsNeighborsFinish and kept the walk
DegreesEstimated ==
    /\ last_tick.from = "GetNeighborsNeighborsFinish"
    /\ last_tick.res = "Ok"
    /\ last_tick.trail # <<>>
    /\ walk # {}

InState(s) == walk # {} /\ the(walk).state = s
Panicked == last_tick.res = "panic"

Outstanding(w) ==
    w.handshake_request \cup w.getneighbors_request
    \cup w.unresolved_handshake_neighbors \cup w.unresolved_getneighbors_neighbors
    \cup w.unresolved_neighbor_pings

\* the neighbors whose handle the last call polled and found pending
PendingPolled(tick) == {p.to : p \in {q \in tick.polled : q.kind = "Pending"}}

\* a call that returned Ok after it polled a handle that was still pending
PendingTick ==
    /\ last_tick' # last_tick
    /\ last_tick'.res = "Ok"
    /\ PendingPolled(last_tick') # {}

\* what such a call leaves alone, as long as the walk is kept
PendingFrame ==
    \A w \in walk, v \in walk' :
        /\ v.state = w.state
        /\ last_tick'.trail = <<>>
        /\ PendingPolled(last_tick') \subseteq Outstanding(v)
        /\ Outstanding(v) \subseteq Outstanding(w)
        /\ PendingPolled(last_tick') \cap v.result.broken_connections
              \subseteq w.result.broken_connections
        /\ v.result.new_connections = w.result.new_connections

\* C35: a call that polls a reply handle and finds it pending leaves the
\* walk in the state it was in, keeps the handle for the next call, records
\* no broken connection for that neighbor and sends no request; a Finish
\* state with several handles advances only when none is pending
C35_PendingHandleIsKept ==
    [][PendingTick => walk' # {} /\ PendingFrame]_vars

\* the same, for the calls after which the walk is still there
C35_PendingHandleIsKeptUnlessRestarted ==
    [][PendingTick /\ walk' # {} => PendingFrame]_vars
\* ------------------------------------------------------------------------
\* The draws of step()
\* ------------------------------------------------------------------------
\* C36: the alternative that step() draws when its first draw was the
\* previous neighbor is an entry of the frontier other than the previous
\* neighbor, and no draw of step() fails
C36_AlternativeIsNotPrevious ==
    /\ ~AssertionFailed
    /\ \A w \in walk, a \in last_tick.alt :
           a \in w.frontier /\ a \notin w.prev_neighbor
\* ------------------------------------------------------------------------
\* Reporting of broken connections
\* ------------------------------------------------------------------------
\* the neighbors named as broken in the walk result that the call returned
Reported(tick) == UNION {r.broken_connections : r \in tick.ret}

\* C37: every neighbor that a walk records in result.broken_connections is
\* returned to the caller in the broken_connections of a walk result.  The
\* record lives in the walk, so a call that drops the walk has to return
\* the neighbors recorded by then: none can be reported later
C37_BrokenIsReported ==
    [][walk # {} /\ walk' = {} => last_tick'.broken \subseteq Reported(last_tick')]_vars

\* ------------------------------------------------------------------------
\* Where the random restart applies
\* ------------------------------------------------------------------------
\* a call of walk_peer_graph that succeeded and dropped the walk: the random
\* restart
RandomRestart == last_tick'.res = "Ok" /\ walk # {} /\ walk' = {}

\* C38: the random restart drops the walk only in a call that completed a
\* step, i.e. one that ran NeighborsPingFinish to its end, returned the walk
\* result and reset the walk to HandshakeBegin with no request outstanding
C38_RestartOnlyAtStepBoundary ==
    [][RandomRestart => /\ last_tick'.from = "NeighborsPingFinish"
                        /\ last_tick'.ret # {}]_vars
\* ------------------------------------------------------------------------
\* A new neighbor that is not whitelisted and finds no room
\* ------------------------------------------------------------------------
\* C39: when save() finds no room for a newly handshaked neighbor that is not
\* whitelisted (whitelisted = 0) and find_replaced_neighbor_slot gives a slot,
\* the eviction candidate is recorded in replaced_neighbors, from which the
\* pings of this step are sent
C39_UnlistedNeighborStartsEviction ==
    last_tick.res = "Ok" =>
        \A f \in last_tick.full : f.whitelisted = 0 /\ f.slot # {} => f.recorded
\* ------------------------------------------------------------------------
\* The states a walk is in between two calls
\* ------------------------------------------------------------------------
\* C40: the walk that a call of walk_peer_graph finds is in a state that the
\* match on walk_state has an arm for; the Begin states GetHandshakesBegin,
\* GetNeighborsNeighborsBegin and NeighborsPingBegin and the state Finished
\* are left again within the call that entered them, or the walk is
\* discarded, so no call reaches the panic of an invalid walk state
C40_WalkFoundInTickState ==
    /\ \A w \in walk : w.state \in TickStates
    /\ last_tick.from \in TickStates

\* a call in GetNeighborsNeighborsFinish moved the walk to NeighborsPingBegin,
\* a state without an arm, signing a ping failed after that, and the walk
\* was discarded
C40_Witness ==
    /\ last_tick.from = "GetNeighborsNeighborsFinish"
    /\ last_tick.res = "Err" /\ last_tick.err = "SigningError"
    /\ last_tick.trail = <<"NeighborsPingBegin">>
    /\ walk = {}
====
